---- MODULE Spec2Model ----
(***************************************************************************)
(* Model of the local persistence layer of the novel reader:               *)
(* StorageService (validated slice saves, loads, debounced saves),         *)
(* StorageErrorHandler (error log, safe JSON), DataMigration, and the      *)
(* navigation handlers of App that write the reading state.                *)
(*                                                                         *)
(* Representation of JavaScript values                                     *)
(*   object            a record; a missing (undefined) property is a field *)
(*                     that is not in the record's DOMAIN                  *)
(*   primitive / null  Prim(x), a record with the single field "prim"      *)
(*   number            an integer, or NaN, or JSNull where JSON turned a   *)
(*                     non-finite number into null                         *)
(*   ISO timestamp     the clock value (ms) at which it was taken          *)
(*   stored text       Absent, Garbage (does not parse) or JsonText(v)     *)
(***************************************************************************)
EXTENDS Integers, Sequences, FiniteSets, TLC

VARIABLES
    clock,                \* Date.now(), in ms since the module was loaded
    storage,              \* localStorage: key -> stored text
    quotaFull,            \* localStorage.setItem raises QuotaExceededError
    errorLog,             \* StorageErrorHandler.errorLog
    timeouts,             \* pending setTimeout callbacks of debouncedSave
    debounceTimers,       \* StorageService.debounceTimers: key -> timer id
    nextTimerId,          \* next id handed out by setTimeout
    defaultReadingState,  \* the exported (mutable) defaultReadingState object
    defaultSessionData,   \* the exported (mutable) defaultSessionData object
    currentChapterIndex,  \* App state: the chapter shown
    uiState,              \* useUIState state: panels and layout
    last,                 \* the last operation performed, its input and result
    backups,              \* localStorage: the novel-backup-<id> entries
    nextBackup,           \* backup ids handed out so far, plus one
    navSaved,             \* the chapter index stored by the latest navigation save
    calls,                \* per key, the debouncedSave calls made so far
    writes,               \* per key, the writes made by debounce timers
    failingRules,         \* the migration rules whose validate is made to fail
    pc,                   \* the mount effect of App that runs next, or "running"
    handling,             \* the handleStorageOperation call in progress
    nextBookmark,         \* bookmark ids handed out so far, plus one
    app,                  \* App state: migrationStatus, chapters, isStateRestored
    scrollTimeoutRef,     \* useScrollTracking: the pending timeout of handleScroll
    sessionData           \* useSessionTracking state: the session slice in memory

vars == <<clock, storage, quotaFull, errorLog, timeouts, debounceTimers,
          nextTimerId, defaultReadingState, defaultSessionData,
          currentChapterIndex, uiState, last, backups, nextBackup, navSaved,
          calls, writes, failingRules, pc, handling, nextBookmark, app,
          scrollTimeoutRef, sessionData>>

timerVars == <<timeouts, debounceTimers, nextTimerId, calls, writes>>
defaultVars == <<defaultReadingState, defaultSessionData>>
appVars == <<currentChapterIndex, uiState, navSaved>>
hookVars == <<scrollTimeoutRef, sessionData>>
handlerVars == <<handling, nextBookmark, app, hookVars>>
backupVars == <<backups, nextBackup, failingRules, pc, handlerVars>>

-----------------------------------------------------------------------------
(* Bounds of the model *)

MaxTime == 2000         \* the clock stops here
TimeStep == 500         \* the longest step of the clock
MaxLog == 4             \* errors logged in one run
MaxTimers == 3          \* setTimeout calls in one run
MaxScrolls == 2         \* scroll events in one run
NumChapters == 3        \* chapters.length
MaxPasses == 4          \* migration passes that make a backup, in one run
MaxBookmarks == 2       \* bookmarks added in one run

-----------------------------------------------------------------------------
(* JavaScript values *)

NaN == -1000
JSNull == -1001

Prim(x) == [prim |-> x]
IsPrim(d) == "prim" \in DOMAIN d
FalsyPrims == {"null", "0", "false", "empty"}
\* !data
Falsy(d) == IsPrim(d) /\ d.prim \in FalsyPrims
\* data && typeof data === 'object'
IsObject(d) == ~IsPrim(d)
Has(d, f) == f \in DOMAIN d
\* typeof v === 'number'
IsNumber(v) == v # JSNull
\* v >= 0 for a number v
NonNegative(v) == v # NaN /\ v >= 0

\* {...a, ...b}
Spread(a, b) ==
    [f \in DOMAIN a \cup DOMAIN b |-> IF f \in DOMAIN b THEN b[f] ELSE a[f]]

-----------------------------------------------------------------------------
(* Storage keys, StorageService.ts:73-79, DataMigration VERSION_KEY, ErrorHandler *)

PREFERENCES == "novel-preferences"
READING_STATE == "novel-reading-state"
UI_STATE == "novel-ui-state"
SESSION_DATA == "novel-session-data"
APP_DATA == "novel-app-data"
VERSION_KEY == "novel-data-version"
CRITICAL_KEY == "novel-critical-errors"

SliceKeys == {PREFERENCES, READING_STATE, UI_STATE, SESSION_DATA}
STORAGE_KEYS == SliceKeys \cup {APP_DATA}

VERSION == <<1, 0, 0>>

-----------------------------------------------------------------------------
(* JSON text *)

Absent == [kind |-> "absent"]
Garbage == [kind |-> "garbage"]
JsonText(v) == [kind |-> "json", val |-> v]

NumberFields == {"currentChapterIndex", "scrollPosition", "totalReadingTime",
                 "timeSpent", "contentAreaWidth", "panelAnimationDuration",
                 "visitCount", "averageReadingSpeed"}
ObjectFields == {"data", "preferences", "readingState", "uiState", "sessionData"}

\* JSON.stringify writes NaN as null
JsonNumber(v) == IF v = NaN THEN JSNull ELSE v

RECURSIVE ToJSON(_)
\* the value JSON.parse(JSON.stringify(o)) yields
ToJSON(o) ==
    [f \in DOMAIN o |->
        IF f \in NumberFields THEN JsonNumber(o[f])
        ELSE IF f \in ObjectFields THEN ToJSON(o[f])
        ELSE IF f = "readingProgress"
            THEN [c \in DOMAIN o[f] |-> ToJSON(o[f][c])]
        ELSE IF f = "chaptersRead"
            THEN [i \in DOMAIN o[f] |-> JsonNumber(o[f][i])]
        ELSE o[f]]

\* JSON.stringify throws on a circular structure (a "self" property)
Serializable(o) == ~Has(o, "self")

-----------------------------------------------------------------------------
(* StorageErrorHandler, ErrorHandler.ts.  The service code runs on a "world" *)
(* w = [st |-> localStorage, log |-> errorLog] which each operator returns   *)
(* as changed.                                                               *)

maxLogSize == 50
maxCriticalErrors == 10

World == [st |-> storage, log |-> errorLog]

\* localStorage.setItem(key, text): raises when the quota is exceeded
SetItemThrows == quotaFull
SetItem(st, key, text) == [st EXCEPT ![key] = text]

isRecoverable(code) ==
    code \in {"QUOTA_EXCEEDED", "NETWORK_ERROR", "SERIALIZATION_ERROR",
              "DESERIALIZATION_ERROR"}

\* storeCriticalError that lets the list grow
storeCriticalErrorUncapped(st, entry) ==
    IF st[CRITICAL_KEY].kind = "garbage" \/ SetItemThrows THEN st
    ELSE SetItem(st, CRITICAL_KEY,
                 JsonText(Append(IF st[CRITICAL_KEY].kind = "absent" THEN << >>
                                 ELSE st[CRITICAL_KEY].val, entry)))

\* the whole body is in a try block: a list that does not parse, or a write
\* that raises, leaves the storage as it is
storeCriticalError(st, entry) ==
    LET raw == st[CRITICAL_KEY]
        list == IF raw.kind = "absent" THEN << >> ELSE raw.val
        added == Append(list, entry)
        kept == IF Len(added) > maxCriticalErrors THEN Tail(added) ELSE added
    IN  IF raw.kind = "garbage" \/ SetItemThrows THEN st
        ELSE SetItem(st, CRITICAL_KEY, JsonText(kept))

\* createError: builds the error and logs it (logError)
createError(w, code, operation) ==
    LET entry == [code |-> code, operation |-> operation]
        added == Append(w.log, entry)
        kept == IF Len(added) > maxLogSize THEN Tail(added) ELSE added
    IN  [st |-> IF isRecoverable(code) THEN w.st ELSE storeCriticalError(w.st, entry),
         log |-> kept]

\* validateStorageData(key, data, validator), given the validator's answer
validateStorageData(w, isValid) ==
    [w |-> IF isValid THEN w ELSE createError(w, "VALIDATION_FAILED", "validateStorageData"),
     ret |-> isValid]

\* safeJSONParse(json, fallback): [w, val]
safeJSONParse(w, text, fallback) ==
    IF text.kind = "garbage"
    THEN [w |-> createError(w, "DESERIALIZATION_ERROR", "safeJSONParse"), val |-> fallback]
    ELSE [w |-> w, val |-> text.val]

\* safeJSONStringify(data): [w, text], text = Absent standing for null
safeJSONStringify(w, data) ==
    IF Serializable(data) /\ (Has(data, "data") => Serializable(data.data))
    THEN [w |-> w, text |-> JsonText(ToJSON(data))]
    ELSE [w |-> createError(w, "SERIALIZATION_ERROR", "safeJSONStringify"), text |-> Absent]

-----------------------------------------------------------------------------
(* ValidationService, StorageService.ts:129-202 *)

validThemes == {"system", "light", "dark"}
validFonts == {"system", "myanmarsanpya", "myanmartagu", "masterpiecestadium", "pyidaungsu"}
validFontSizes == {"small", "medium", "large"}
validLineHeights == {"compact", "normal", "relaxed"}
validTextAligns == {"left", "center", "justify"}
validPageWidths == {"narrow", "normal", "wide"}
validNavPrefs == {"buttons", "keyboard", "swipe"}
validPanels == {"toc", "settings", "null"}

In(d, f, S) == Has(d, f) /\ d[f] \in S
NumberField(d, f) == Has(d, f) /\ IsNumber(d[f])

validatePreferences(d) ==
    /\ ~Falsy(d) /\ IsObject(d)
    /\ In(d, "theme", validThemes)
    /\ In(d, "font", validFonts)
    /\ In(d, "fontSize", validFontSizes)
    /\ In(d, "lineHeight", validLineHeights)
    /\ In(d, "textAlign", validTextAligns)
    /\ In(d, "pageWidth", validPageWidths)

validateReadingState(d) ==
    /\ ~Falsy(d) /\ IsObject(d)
    /\ NumberField(d, "currentChapterIndex") /\ NonNegative(d.currentChapterIndex)
    /\ NumberField(d, "scrollPosition") /\ NonNegative(d.scrollPosition)
    /\ Has(d, "lastReadTime")
    /\ Has(d, "readingProgress")
    /\ NumberField(d, "totalReadingTime")
    /\ Has(d, "sessionStartTime")

validateUIState(d) ==
    /\ ~Falsy(d) /\ IsObject(d)
    /\ Has(d, "showTOC")
    /\ Has(d, "showSettings")
    /\ In(d, "lastActivePanel", validPanels)
    /\ NumberField(d, "contentAreaWidth")
    /\ In(d, "navigationPreference", validNavPrefs)
    /\ NumberField(d, "panelAnimationDuration")

validateSessionData(d) ==
    /\ ~Falsy(d) /\ IsObject(d)
    /\ Has(d, "sessionId")
    /\ Has(d, "lastVisitTime")
    /\ NumberField(d, "totalReadingTime")
    /\ Has(d, "chaptersRead")
    /\ Has(d, "bookmarkPositions")
    /\ NumberField(d, "visitCount")
    /\ NumberField(d, "averageReadingSpeed")

Validator(key, d) ==
    CASE key = PREFERENCES -> validatePreferences(d)
      [] key = READING_STATE -> validateReadingState(d)
      [] key = UI_STATE -> validateUIState(d)
      [] key = SESSION_DATA -> validateSessionData(d)

\* the merge the other way round: the defaults over the candidate
sanitizeDataDefaultsOver(d, defaultValue) ==
    IF ~Falsy(d) /\ IsObject(d) THEN Spread(d, defaultValue) ELSE defaultValue

sanitizeData(d, defaultValue) ==
    IF ~Falsy(d) /\ IsObject(d) THEN Spread(defaultValue, d) ELSE defaultValue

-----------------------------------------------------------------------------
(* Default values, StorageService.ts:82-117.  The two defaults that the code *)
(* changes in place are variables; these are their values at module load.    *)

defaultPreferences ==
    [theme |-> "system", font |-> "system", fontSize |-> "medium",
     lineHeight |-> "normal", textAlign |-> "left", pageWidth |-> "normal"]

initialReadingState ==
    [currentChapterIndex |-> 0, scrollPosition |-> 0, lastReadTime |-> 0,
     readingProgress |-> << >>, totalReadingTime |-> 0, sessionStartTime |-> 0]

defaultUIState ==
    [showTOC |-> FALSE, showSettings |-> FALSE, lastActivePanel |-> "null",
     contentAreaWidth |-> 800, navigationPreference |-> "buttons",
     panelAnimationDuration |-> 300]

initialSessionData ==
    [sessionId |-> 0, lastVisitTime |-> 0, totalReadingTime |-> 0,
     chaptersRead |-> << >>, bookmarkPositions |-> << >>, visitCount |-> 1,
     averageReadingSpeed |-> 0]

Default(key) ==
    CASE key = PREFERENCES -> defaultPreferences
      [] key = READING_STATE -> defaultReadingState
      [] key = UI_STATE -> defaultUIState
      [] key = SESSION_DATA -> defaultSessionData

-----------------------------------------------------------------------------
(* StorageService: core operations, StorageService.ts:210-240 *)

Envelope(data) == [data |-> data, version |-> VERSION, timestamp |-> clock]

\* the try block of saveToStorage after serializing to s: one setItem, and
\* false from the catch when serializing or setItem raised
SetItemOrCatch(s, key) ==
    IF s.text = Absent \/ SetItemThrows
    THEN [w |-> s.w, ret |-> FALSE, threw |-> FALSE]
    ELSE [w |-> [s.w EXCEPT !.st = SetItem(s.w.st, key, s.text)],
          ret |-> TRUE, threw |-> FALSE]

\* saveToStorage without its try/catch: a failure escapes to the caller after
\* the write was attempted
saveToStorageUncaught(w, key, data) ==
    [SetItemOrCatch(safeJSONStringify(w, Envelope(data)), key)
        EXCEPT !.threw = ~SetItemOrCatch(safeJSONStringify(w, Envelope(data)), key).ret]

\* [w, ret, threw]: what saveToStorage leaves, returns, and whether it throws
saveToStorage(w, key, data) == SetItemOrCatch(safeJSONStringify(w, Envelope(data)), key)

\* the result of loadFromStorage once the item was read and parsed to p,
\* returning parsed.data without "|| defaultValue"
DataNoFallback(p, w, item, defaultValue) ==
    IF item.kind = "absent"
    THEN [w |-> w, val |-> defaultValue, isDefault |-> TRUE, threw |-> FALSE]
    ELSE IF item.kind = "json" /\ IsObject(p.val) /\ Has(p.val, "data")
    THEN [w |-> p.w, val |-> p.val.data, isDefault |-> FALSE, threw |-> FALSE]
    ELSE [w |-> p.w, val |-> defaultValue, isDefault |-> TRUE, threw |-> FALSE]

\* the result of loadFromStorage once the item was read and parsed to p:
\* "if (!item) return defaultValue" and "return parsed.data || defaultValue".
\* Reading .data of a parsed null raises, which is caught.
DataOrDefault(p, w, item, defaultValue) ==
    IF item.kind = "absent"
    THEN [w |-> w, val |-> defaultValue, isDefault |-> TRUE, threw |-> FALSE]
    ELSE IF /\ item.kind = "json"
            /\ IsObject(p.val)
            /\ Has(p.val, "data")
            /\ ~Falsy(p.val.data)
    THEN [w |-> p.w, val |-> p.val.data, isDefault |-> FALSE, threw |-> FALSE]
    ELSE [w |-> p.w, val |-> defaultValue, isDefault |-> TRUE, threw |-> FALSE]

loadFromStorageNoFallback(w, key, defaultValue) ==
    DataNoFallback(safeJSONParse(w, w.st[key], [data |-> defaultValue]),
                   w, w.st[key], defaultValue)

\* [w, val, isDefault, threw]: isDefault says that val is the defaultValue
\* object itself
loadFromStorage(w, key, defaultValue) ==
    DataOrDefault(safeJSONParse(w, w.st[key], [data |-> defaultValue]),
                  w, w.st[key], defaultValue)

-----------------------------------------------------------------------------
(* StorageService: the four slices, StorageService.ts:258-332 *)

\* a slice save that stores without validating
SaveSliceUnvalidated(w, key, data) == saveToStorage(w, key, data)

\* saveUserPreferences / saveReadingState / saveUIState / saveSessionData
SaveSlice(w, key, data) ==
    LET v == validateStorageData(w, Validator(key, data))
    IN  IF ~v.ret THEN [w |-> v.w, ret |-> FALSE, threw |-> FALSE]
        ELSE saveToStorage(v.w, key, data)

\* loadUserPreferences / loadReadingState / loadUIState / loadSessionData:
\* [w, val, whole, shared].  whole: val is the default object itself;
\* shared: the properties of val whose values are the default object's own
\* (a sanitized copy is shallow).
\* a load that answers invalid data with the default alone
ValidatedOrDefault(stored, key) ==
    IF Validator(key, stored.val)
    THEN [w |-> stored.w, val |-> stored.val, whole |-> stored.isDefault,
          shared |-> IF stored.isDefault THEN DOMAIN stored.val ELSE {}]
    ELSE [w |-> stored.w, val |-> Default(key), whole |-> TRUE,
          shared |-> DOMAIN Default(key)]

Validated(stored, key) ==
    IF Validator(key, stored.val)
    THEN [w |-> stored.w, val |-> stored.val, whole |-> stored.isDefault,
          shared |-> IF stored.isDefault THEN DOMAIN stored.val ELSE {}]
    ELSE IF ~Falsy(stored.val) /\ IsObject(stored.val)
    THEN [w |-> stored.w, val |-> sanitizeData(stored.val, Default(key)), whole |-> FALSE,
          shared |-> IF stored.isDefault THEN DOMAIN Default(key)
                     ELSE DOMAIN Default(key) \ DOMAIN stored.val]
    ELSE [w |-> stored.w, val |-> sanitizeData(stored.val, Default(key)), whole |-> TRUE,
          shared |-> DOMAIN Default(key)]

LoadSlice(w, key) == Validated(loadFromStorage(w, key, Default(key)), key)

-----------------------------------------------------------------------------
(* Inputs *)

AllKeys == STORAGE_KEYS \cup {VERSION_KEY, CRITICAL_KEY}
EmptyStorage == [k \in AllKeys |-> Absent]

darkLarge == [defaultPreferences EXCEPT !.theme = "dark", !.fontSize = "large"]
chapterTwo == [initialReadingState EXCEPT !.currentChapterIndex = 2, !.scrollPosition = 1500]
tocOpen == [defaultUIState EXCEPT !.showTOC = TRUE, !.lastActivePanel = "toc"]
secondVisit == [initialSessionData EXCEPT !.visitCount = 2]

\* values the validators accept
ValidValues(key) ==
    CASE key = PREFERENCES -> {defaultPreferences, darkLarge}
      [] key = READING_STATE ->
            {chapterTwo, [initialReadingState EXCEPT !.totalReadingTime = NaN]}
      [] key = UI_STATE -> {defaultUIState, tocOpen}
      [] key = SESSION_DATA ->
            {secondVisit, [initialSessionData EXCEPT !.averageReadingSpeed = NaN]}

\* values the validators reject
InvalidValues(key) ==
    CASE key = PREFERENCES ->
            {[theme |-> "invalid"], [defaultPreferences EXCEPT !.theme = "invalid-theme"]}
      [] key = READING_STATE -> {[initialReadingState EXCEPT !.scrollPosition = -1]}
      [] key = UI_STATE -> {[defaultUIState EXCEPT !.navigationPreference = "voice"]}
      [] key = SESSION_DATA -> {[sessionId |-> 0, lastVisitTime |-> 0]}

Candidates(key) == ValidValues(key) \cup InvalidValues(key)

\* an object that refers to itself: JSON.stringify raises on it
Circular(v) == Spread(v, [self |-> "circular"])

-----------------------------------------------------------------------------
(* The initial state: the module has just been loaded *)

Chapters == 0..(NumChapters - 1)

\* App's restore effect: the stored chapter index, when it names a chapter
RestoredIndex(st) ==
    LET l == LoadSlice([st |-> st, log |-> << >>], READING_STATE)
    IN  IF l.val.currentChapterIndex \in Chapters THEN l.val.currentChapterIndex ELSE 0

InitEngine(st, key, failing, bk, at) ==
    /\ clock = 0
    /\ storage = st
    /\ quotaFull = FALSE
    /\ errorLog = << >>
    /\ timeouts = {}
    /\ debounceTimers = [k \in SliceKeys |-> 0]
    /\ nextTimerId = 1
    /\ defaultReadingState = initialReadingState
    /\ defaultSessionData = initialSessionData
    /\ currentChapterIndex = IF at = "running" THEN RestoredIndex(st) ELSE 0
    /\ uiState = defaultUIState
    /\ backups = bk
    /\ nextBackup = 1
    /\ navSaved = << >>
    /\ last = [op |-> "init", key |-> key]
    /\ calls = [k \in SliceKeys |-> << >>]
    /\ writes = [k \in SliceKeys |-> << >>]
    /\ failingRules = failing
    /\ pc = at
    /\ handling = [state |-> "idle"]
    /\ nextBookmark = 1
    /\ app = [migrationStatus |-> IF at = "running" THEN "success" ELSE "pending",
              chapters |-> IF at = "running" THEN NumChapters ELSE 0,
              isStateRestored |-> at = "running"]
    /\ scrollTimeoutRef = [pending |-> FALSE, deadline |-> 0, chapterIndex |-> 0,
                           scrollTop |-> 0]
    /\ sessionData = initialSessionData

\* the built-in migration rules as they are, and no backup left by earlier
\* sessions
InitWith(st, key) == InitEngine(st, key, {}, {}, "running")

InitSlices == \E k \in SliceKeys : InitWith(EmptyStorage, k)

-----------------------------------------------------------------------------
(* Calls of the slice operations *)

SaveOp(key, c) ==
    \E r \in {SaveSlice(World, key, c)} :
        /\ Len(r.w.log) <= MaxLog
        /\ storage' = r.w.st
        /\ errorLog' = r.w.log
        /\ last' = [op |-> "save", key |-> key, arg |-> c, ret |-> r.ret, threw |-> r.threw]
        /\ UNCHANGED <<clock, quotaFull, timerVars, defaultVars, appVars, backupVars>>

LoadOp(key) ==
    \E r \in {LoadSlice(World, key)} :
        /\ Len(r.w.log) <= MaxLog
        /\ storage' = r.w.st
        /\ errorLog' = r.w.log
        /\ last' = [op |-> "load", key |-> key, val |-> r.val]
        /\ UNCHANGED <<clock, quotaFull, timerVars, defaultVars, appVars, backupVars>>

Min(S) == CHOOSE x \in S : \A y \in S : x <= y

\* time passes, up to the next pending timer's deadline: a due callback runs
\* before the clock moves on
Deadlines ==
    {t.deadline : t \in timeouts}
        \cup (IF handling.state = "waiting" THEN {handling.due} ELSE {})
        \cup (IF scrollTimeoutRef.pending THEN {scrollTimeoutRef.deadline} ELSE {})
Tick ==
    /\ clock < MaxTime
    /\ \A d \in Deadlines : d > clock
    /\ clock' = Min({clock + TimeStep, MaxTime} \cup Deadlines)
    /\ last' = [op |-> "tick", key |-> last.key,
                after |-> IF last.op = "tick" THEN last.after ELSE last.op]
    /\ UNCHANGED <<storage, quotaFull, errorLog, timerVars, defaultVars, appVars, backupVars>>

\* One run exercises one slice, last.key: the operations on a slice read and
\* write no other slice's key.
SaveSliceCall == \E c \in Candidates(last.key) : SaveOp(last.key, c)
LoadSliceCall == LoadOp(last.key)

NextSlices == SaveSliceCall \/ LoadSliceCall \/ Tick
SpecSlices == InitSlices /\ [][NextSlices]_vars

-----------------------------------------------------------------------------
(* Direct calls of saveToStorage and loadFromStorage, over what a key may   *)
(* hold when the application starts: nothing, text that does not parse,     *)
(* JSON that is no envelope, envelopes with and without usable data.        *)

EnvelopeAt0(data) == [data |-> data, version |-> VERSION, timestamp |-> 0]

\* what an older version of the application stored: properties are missing
LegacyValue(key) ==
    CASE key = PREFERENCES -> [theme |-> "dark", font |-> "system", fontSize |-> "small"]
      [] key = READING_STATE -> [currentChapterIndex |-> 1, scrollPosition |-> 100,
                                 lastReadTime |-> 0, readingProgress |-> << >>]
      [] key = UI_STATE -> [showTOC |-> TRUE, showSettings |-> FALSE]
      [] key = SESSION_DATA -> [sessionId |-> 0, lastVisitTime |-> 0, visitCount |-> 3]

FirstValid(key) ==
    CASE key = PREFERENCES -> darkLarge
      [] key = READING_STATE -> chapterTwo
      [] key = UI_STATE -> tocOpen
      [] key = SESSION_DATA -> secondVisit

RawTexts(key) ==
    {Absent, Garbage,
     JsonText(Prim("null")),
     JsonText([version |-> VERSION, timestamp |-> 0]),
     JsonText(EnvelopeAt0(Prim("null"))),
     JsonText(EnvelopeAt0(Prim("0"))),
     JsonText(EnvelopeAt0(Prim("true"))),
     JsonText(EnvelopeAt0(LegacyValue(key))),
     JsonText(EnvelopeAt0(FirstValid(key)))}

RawValues(key) == ValidValues(key) \cup {Circular(FirstValid(key))}

InitStore == \E k \in SliceKeys : \E t \in RawTexts(k) :
                InitWith([EmptyStorage EXCEPT ![k] = t], k)

SaveToStorageOp(key, v) ==
    \E r \in {saveToStorage(World, key, v)} :
        /\ Len(r.w.log) <= MaxLog
        /\ storage' = r.w.st
        /\ errorLog' = r.w.log
        /\ last' = [op |-> "saveToStorage", key |-> key, arg |-> v, ret |-> r.ret,
                    threw |-> r.threw]
        /\ UNCHANGED <<clock, quotaFull, timerVars, defaultVars, appVars, backupVars>>

LoadFromStorageOp(key) ==
    \E r \in {loadFromStorage(World, key, Default(key))} :
        /\ Len(r.w.log) <= MaxLog
        /\ storage' = r.w.st
        /\ errorLog' = r.w.log
        /\ last' = [op |-> "loadFromStorage", key |-> key, val |-> r.val,
                    threw |-> r.threw]
        /\ UNCHANGED <<clock, quotaFull, timerVars, defaultVars, appVars, backupVars>>

\* the environment: the quota fills up, or space is freed
SetQuota(full) ==
    /\ quotaFull # full
    /\ quotaFull' = full
    /\ last' = [op |-> "quota", key |-> last.key]
    /\ UNCHANGED <<clock, storage, errorLog, timerVars, defaultVars, appVars, backupVars>>

SaveToStorageCall == \E v \in RawValues(last.key) : SaveToStorageOp(last.key, v)
LoadFromStorageCall == LoadFromStorageOp(last.key)
QuotaChange == \E full \in BOOLEAN : SetQuota(full)

NextStore ==
    \/ SaveSliceCall
    \/ LoadSliceCall
    \/ SaveToStorageCall
    \/ LoadFromStorageCall
    \/ QuotaChange
SpecStore == InitStore /\ [][NextStore]_vars

\* The slice operations over every kind of stored content, objects that fail
\* the slice's validator included
StoredTexts(key) == RawTexts(key) \cup {JsonText(EnvelopeAt0(v)) : v \in Candidates(key)}

InitLoads == \E k \in SliceKeys : \E t \in StoredTexts(k) :
                InitWith([EmptyStorage EXCEPT ![k] = t], k)
NextLoads == SaveSliceCall \/ LoadSliceCall
SpecLoads == InitLoads /\ [][NextLoads]_vars

-----------------------------------------------------------------------------
(* Timers: StorageService.debouncedSave, StorageService.ts:243-255 *)

ScrollDelay == 1000

\* A reference to an object handed to debouncedSave.  whole: it is the default
\* object of its slice itself; shared: the properties whose values are objects
\* of the default object (a sanitized copy is shallow); val: its own properties.
Fresh(v) == [whole |-> FALSE, shared |-> {}, val |-> v]
Alias == [alias |-> "default"]
SharedObjects(l) == l.shared \cap {"readingProgress", "chaptersRead", "bookmarkPositions"}
RefOf(l, v) ==
    [whole |-> l.whole, shared |-> IF l.whole THEN {} ELSE SharedObjects(l),
     val |-> IF l.whole THEN Alias ELSE v]
\* what the reference holds now
Deref(key, ref) ==
    IF ref.whole THEN Default(key)
    ELSE [f \in DOMAIN ref.val |->
            IF f \in ref.shared THEN Default(key)[f] ELSE ref.val[f]]

TimerWorld == [pending |-> timeouts, map |-> debounceTimers, next |-> nextTimerId]

\* debouncedSave without clearTimeout of the key's pending timer
debouncedSaveNoClear(tw, key, data, delay) ==
    LET timer == [id |-> tw.next, key |-> key, data |-> data, deadline |-> clock + delay]
    IN  [pending |-> tw.pending \cup {timer},
         map |-> [tw.map EXCEPT ![key] = tw.next],
         next |-> tw.next + 1]

\* debouncedSave keeping one timer for all keys
debouncedSaveOneTimer(tw, key, data, delay) ==
    LET timer == [id |-> tw.next, key |-> key, data |-> data, deadline |-> clock + delay]
    IN  [pending |-> {timer},
         map |-> [k \in DOMAIN tw.map |-> IF k = key THEN tw.next ELSE 0],
         next |-> tw.next + 1]

debouncedSave(tw, key, data, delay) ==
    LET existingTimer == tw.map[key]
        cleared == IF existingTimer # 0
                   THEN {t \in tw.pending : t.id # existingTimer}
                   ELSE tw.pending
        timer == [id |-> tw.next, key |-> key, data |-> data, deadline |-> clock + delay]
    IN  [pending |-> cleared \cup {timer},
         map |-> [tw.map EXCEPT ![key] = tw.next],
         next |-> tw.next + 1]

PendingFor(key) == {t \in timeouts : t.key = key}

\* the record of a debouncedSave call kept in calls[key]
CallRecord(key, v, delay, arg) ==
    [at |-> clock, id |-> nextTimerId, delay |-> delay, val |-> v, arg |-> arg,
     superseding |-> PendingFor(key) # {}, nav |-> navSaved, navAfter |-> FALSE]

\* a debouncedSave call can be made while its timer can still fire
CanSchedule(delay) == nextTimerId <= MaxTimers /\ clock + delay <= MaxTime

DebouncedSaveOp(key, v, delay) ==
    /\ CanSchedule(delay)
    /\ \E tw \in {debouncedSave(TimerWorld, key, Fresh(v), delay)} :
        /\ timeouts' = tw.pending
        /\ debounceTimers' = tw.map
        /\ nextTimerId' = tw.next
    /\ calls' = [calls EXCEPT ![key] = Append(@, CallRecord(key, v, delay, << >>))]
    /\ last' = [op |-> "debouncedSave", key |-> key, arg |-> v]
    /\ UNCHANGED <<clock, storage, quotaFull, errorLog, writes, defaultVars, appVars, backupVars>>

\* the callback of a timer set by debouncedSave, run when its delay has passed
TimerFire(t) ==
    /\ t.deadline <= clock
    /\ \E r \in {saveToStorage(World, t.key, Deref(t.key, t.data))} :
        /\ storage' = r.w.st
        /\ errorLog' = r.w.log
        /\ writes' = IF r.ret
                     THEN [writes EXCEPT ![t.key] =
                             Append(@, [at |-> clock, id |-> t.id, text |-> r.w.st[t.key]])]
                     ELSE writes
        /\ last' = [op |-> "fire", key |-> t.key, id |-> t.id, ret |-> r.ret]
    /\ timeouts' = timeouts \ {t}
    /\ debounceTimers' = [debounceTimers EXCEPT ![t.key] = 0]
    /\ UNCHANGED <<clock, quotaFull, nextTimerId, calls, defaultVars, appVars, backupVars>>

DebounceKeys == {READING_STATE, SESSION_DATA}
Delays == {TimeStep, ScrollDelay}

DebouncedSaveCall ==
    \E key \in DebounceKeys : \E v \in ValidValues(key) : \E delay \in Delays :
        DebouncedSaveOp(key, v, delay)
TimerFires == \E t \in timeouts : TimerFire(t)

InitDebounce == InitWith(EmptyStorage, READING_STATE)
NextDebounce == DebouncedSaveCall \/ TimerFires \/ Tick
SpecDebounce == InitDebounce /\ [][NextDebounce]_vars

-----------------------------------------------------------------------------
(* Scroll tracking and chapter navigation: StorageService.updateScrollPosition
   (StorageService.ts:368-388) and App's goToPreviousChapter, goToNextChapter
   and selectChapter *)

\* scroll offsets the scroll tracker reports, and one no element can have
ScrollPositions == {300, 700}
NoScrollPosition == {-1}

\* writing through a reference returned by loadReadingState: the default
\* object changes when the reference is the default object, or shares the
\* written property's object with it
DefaultAfter(l, mutated, sharedFields) ==
    IF l.whole THEN mutated
    ELSE [f \in DOMAIN defaultReadingState |->
            IF f \in SharedObjects(l) \cap sharedFields THEN mutated[f]
            ELSE defaultReadingState[f]]

ScrolledTo(readingState, chapterIndex, scrollPosition) ==
    LET progress == readingState.readingProgress
        currentProgress ==
            IF chapterIndex \in DOMAIN progress THEN progress[chapterIndex]
            ELSE [scrollPosition |-> 0, lastVisited |-> clock, timeSpent |-> 0]
        entry == Spread(currentProgress,
                        [scrollPosition |-> scrollPosition, lastVisited |-> clock])
    IN  [readingState EXCEPT !.scrollPosition = scrollPosition,
                             !.lastReadTime = clock,
                             !.readingProgress =
                                 [c \in DOMAIN progress \cup {chapterIndex} |->
                                     IF c = chapterIndex THEN entry ELSE progress[c]]]

updateScrollPosition(chapterIndex, scrollPosition) ==
    /\ CanSchedule(ScrollDelay)
    /\ Len(calls[READING_STATE]) < MaxScrolls
    /\ \E l \in {LoadSlice(World, READING_STATE)} :
       \E readingState \in {ScrolledTo(l.val, chapterIndex, scrollPosition)} :
       \E tw \in {debouncedSave(TimerWorld, READING_STATE, RefOf(l, readingState),
                                ScrollDelay)} :
        /\ Len(l.w.log) <= MaxLog
        /\ storage' = l.w.st
        /\ errorLog' = l.w.log
        /\ defaultReadingState' = DefaultAfter(l, readingState, {"readingProgress"})
        /\ timeouts' = tw.pending
        /\ debounceTimers' = tw.map
        /\ nextTimerId' = tw.next
        /\ calls' = [calls EXCEPT ![READING_STATE] =
                        Append(@, CallRecord(READING_STATE, readingState, ScrollDelay,
                                             <<chapterIndex, scrollPosition>>))]
    /\ last' = [op |-> "updateScrollPosition", key |-> READING_STATE,
                arg |-> <<chapterIndex, scrollPosition>>]
    /\ UNCHANGED <<clock, quotaFull, writes, defaultSessionData, appVars, backups,
                   nextBackup, failingRules, pc, handling, nextBookmark, app,
                   sessionData>>

\* a call made outside the scroll tracker's timeout
UpdateScrollPosition(chapterIndex, scrollPosition) ==
    /\ updateScrollPosition(chapterIndex, scrollPosition)
    /\ UNCHANGED scrollTimeoutRef

closeAllPanels(ui) ==
    [ui EXCEPT !.showTOC = FALSE, !.showSettings = FALSE, !.lastActivePanel = "null"]

\* the assignments of a handler that also puts the new chapter at its top
NavigatedToTop(readingState, newIndex) ==
    [readingState EXCEPT !.currentChapterIndex = newIndex,
                         !.lastReadTime = clock,
                         !.scrollPosition = 0]

\* readingState.currentChapterIndex = newIndex; readingState.lastReadTime = now
Navigated(readingState, newIndex) ==
    [readingState EXCEPT !.currentChapterIndex = newIndex, !.lastReadTime = clock]

\* the body shared by the three handlers: show the chapter, then load the
\* reading state, set its chapter index and save it
Navigate(newIndex, ui) ==
    /\ \E l \in {LoadSlice(World, READING_STATE)} :
       \E readingState \in {Navigated(l.val, newIndex)} :
       \E r \in {SaveSlice(l.w, READING_STATE, readingState)} :
        /\ Len(r.w.log) <= MaxLog
        /\ storage' = r.w.st
        /\ errorLog' = r.w.log
        /\ defaultReadingState' = DefaultAfter(l, readingState, {})
        /\ navSaved' = IF r.ret THEN <<newIndex>> ELSE navSaved
        /\ last' = [op |-> "navigate", key |-> READING_STATE, arg |-> newIndex,
                    ret |-> r.ret, threw |-> r.threw]
    /\ currentChapterIndex' = newIndex
    /\ uiState' = ui
    /\ calls' = [calls EXCEPT ![READING_STATE] =
                    [i \in DOMAIN @ |-> [@[i] EXCEPT !.navAfter = TRUE]]]
    /\ UNCHANGED <<clock, quotaFull, timeouts, debounceTimers, nextTimerId, writes,
                   defaultSessionData, backupVars>>

goToPreviousChapter ==
    /\ currentChapterIndex > 0
    /\ Navigate(currentChapterIndex - 1, uiState)

goToNextChapter ==
    /\ currentChapterIndex < NumChapters - 1
    /\ Navigate(currentChapterIndex + 1, uiState)

selectChapter(index) == Navigate(index, closeAllPanels(uiState))

\* the reading state found in storage when the application starts
StoredAtStart == {Absent, JsonText(EnvelopeAt0(chapterTwo))}

InitNav ==
    \E t \in StoredAtStart :
        InitWith([EmptyStorage EXCEPT ![READING_STATE] = t], READING_STATE)

\* the scroll tracker reports the position in the chapter shown
ScrollTracked == \E s \in ScrollPositions : UpdateScrollPosition(currentChapterIndex, s)
ChapterSelected == \E i \in Chapters : selectChapter(i)

NextNav ==
    \/ ScrollTracked
    \/ goToPreviousChapter
    \/ goToNextChapter
    \/ ChapterSelected
    \/ TimerFires
    \/ Tick
SpecNav == InitNav /\ [][NextNav]_vars

\* navigation among scroll writes of one position, where nothing happens
\* between a scroll write and the moment its timer is due
OnePositionTracked == UpdateScrollPosition(currentChapterIndex, 700)
TimerAwaited ==
    /\ Deadlines # {}
    /\ \A d \in Deadlines : d > clock
    /\ clock' = Min(Deadlines)
    /\ last' = [op |-> "tick", key |-> last.key,
                after |-> IF last.op = "tick" THEN last.after ELSE last.op]
    /\ UNCHANGED <<storage, quotaFull, errorLog, timerVars, defaultVars, appVars, backupVars>>
NextFrame ==
    \/ OnePositionTracked
    \/ goToPreviousChapter
    \/ goToNextChapter
    \/ ChapterSelected
    \/ TimerFires
    \/ TimerAwaited
SpecFrame == InitNav /\ [][NextFrame]_vars

\* useScrollTracking at its default options: a scroll event clears the pending
\* timeout and sets a new one, whose callback hands the position to
\* updateScrollPosition
debounceDelay == 1000
enableAutoSave == TRUE

handleScroll(scrollTop) ==
    /\ clock + debounceDelay <= MaxTime
    /\ scrollTimeoutRef' = [pending |-> TRUE, deadline |-> clock + debounceDelay,
                            chapterIndex |-> currentChapterIndex,
                            scrollTop |-> scrollTop]
    /\ last' = [op |-> "handleScroll", key |-> READING_STATE, arg |-> scrollTop]
    /\ UNCHANGED <<clock, storage, quotaFull, errorLog, timerVars, defaultVars, appVars,
                   backups, nextBackup, failingRules, pc, handling, nextBookmark, app,
                   sessionData>>

\* element.scrollTop at the event
ScrollTops == ScrollPositions \cup {200}
Scrolled == \E scrollTop \in ScrollTops : handleScroll(scrollTop)

ScrollTimeoutFires ==
    /\ scrollTimeoutRef.pending
    /\ scrollTimeoutRef.deadline = clock
    /\ enableAutoSave
    /\ updateScrollPosition(scrollTimeoutRef.chapterIndex, scrollTimeoutRef.scrollTop)
    /\ scrollTimeoutRef' = [scrollTimeoutRef EXCEPT !.pending = FALSE]

NextScroll == Scrolled \/ ScrollTimeoutFires \/ TimerFires \/ Tick
SpecScroll == InitNav /\ [][NextScroll]_vars

\* useUIState: each handler computes the next state from the previous one,
\* and the auto-save effect then saves the state that was set
Panels == {"toc", "settings"}
ContentWidths == {600, 800}

\* toggleTOC leaving the settings panel as it is
toggleTOCKeepingSettings(prev) ==
    [prev EXCEPT !.showTOC = ~prev.showTOC,
                 !.lastActivePanel = IF ~prev.showTOC THEN "toc" ELSE @]

toggleTOC(prev) ==
    [prev EXCEPT !.showTOC = ~prev.showTOC,
                 !.showSettings = IF ~prev.showTOC THEN FALSE ELSE @,
                 !.lastActivePanel = IF ~prev.showTOC THEN "toc" ELSE @]

toggleSettings(prev) ==
    [prev EXCEPT !.showSettings = ~prev.showSettings,
                 !.showTOC = IF ~prev.showSettings THEN FALSE ELSE @,
                 !.lastActivePanel = IF ~prev.showSettings THEN "settings" ELSE @]

openPanel(prev, panel) ==
    [prev EXCEPT !.showTOC = (panel = "toc"),
                 !.showSettings = (panel = "settings"),
                 !.lastActivePanel = panel]

setContentAreaWidth(prev, width) == [prev EXCEPT !.contentAreaWidth = width]
setNavigationPreference(prev, preference) ==
    [prev EXCEPT !.navigationPreference = preference]

SetUIState(op, newState) ==
    /\ uiState' = newState
    /\ \E r \in {SaveSlice(World, UI_STATE, newState)} :
        /\ Len(r.w.log) <= MaxLog
        /\ storage' = r.w.st
        /\ errorLog' = r.w.log
        /\ last' = [op |-> op, key |-> UI_STATE, ret |-> r.ret]
    /\ UNCHANGED <<clock, quotaFull, timerVars, defaultVars, currentChapterIndex,
                   navSaved, backupVars>>

TOCToggled == SetUIState("toggleTOC", toggleTOC(uiState))
SettingsToggled == SetUIState("toggleSettings", toggleSettings(uiState))
PanelOpened == \E panel \in Panels : SetUIState("openPanel", openPanel(uiState, panel))
PanelsClosed == SetUIState("closeAllPanels", closeAllPanels(uiState))
LayoutChanged ==
    \/ \E width \in ContentWidths :
            SetUIState("setContentAreaWidth", setContentAreaWidth(uiState, width))
    \/ \E preference \in validNavPrefs :
            SetUIState("setNavigationPreference",
                       setNavigationPreference(uiState, preference))

InitPanels == InitWith(EmptyStorage, UI_STATE)
NextPanels ==
    \/ TOCToggled
    \/ SettingsToggled
    \/ PanelOpened
    \/ PanelsClosed
    \/ LayoutChanged
SpecPanels == InitPanels /\ [][NextPanels]_vars

\* Calls of the StorageService operations, with any argument of the
\* parameter's type
UpdateScrollPositionCall ==
    \E s \in ScrollPositions \cup NoScrollPosition :
        UpdateScrollPosition(currentChapterIndex, s)

NextService ==
    \/ SaveSliceCall
    \/ LoadSliceCall
    \/ UpdateScrollPositionCall
    \/ TimerFires
    \/ Tick
SpecService == InitSlices /\ [][NextService]_vars

\* The handlers as the buttons and keys call them, at any chapter: outside
\* their range check they return without doing anything
NavigationIgnored(handler) ==
    /\ last' = [op |-> "ignored", key |-> READING_STATE, arg |-> handler]
    /\ UNCHANGED <<clock, storage, quotaFull, errorLog, timerVars, defaultVars,
                   appVars, backupVars>>

PreviousPressed ==
    \/ goToPreviousChapter
    \/ currentChapterIndex <= 0 /\ NavigationIgnored("goToPreviousChapter")

NextPressed ==
    \/ goToNextChapter
    \/ currentChapterIndex >= NumChapters - 1 /\ NavigationIgnored("goToNextChapter")

\* Reading: the scroll tracker reports element.scrollTop as it is, and the
\* reader moves between chapters
NextReading ==
    \/ UpdateScrollPositionCall
    \/ PreviousPressed
    \/ NextPressed
    \/ ChapterSelected
    \/ TimerFires
    \/ Tick
SpecReading == InitNav /\ [][NextReading]_vars

-----------------------------------------------------------------------------
(* DataMigration.  Version strings are the tuples of their numeric parts. *)

CURRENT_VERSION == <<1, 0, 0>>
maxBackups == 3

\* the two built-in rules, by their position in migrationRules
migrationRules ==
    << [rule |-> 1, fromVersion |-> <<0, 9, 0>>, toVersion |-> <<1, 0, 0>>],
       [rule |-> 2, fromVersion |-> <<1, 0, 0>>, toVersion |-> <<1, 0, 1>>] >>

\* x[f] || v
OrValue(x, f, v) ==
    IF Has(x, f) /\ (f \in NumberFields => x[f] \notin {0, NaN, JSNull})
    THEN x ELSE Spread(x, f :> v)

\* rule.migrate(data); data maps each slice key to the loaded slice
migrate(rule, data) ==
    IF rule.rule = 1
    THEN [data EXCEPT
            ![PREFERENCES] = OrValue(OrValue(OrValue(@, "lineHeight", "normal"),
                                             "textAlign", "left"),
                                     "pageWidth", "normal"),
            ![READING_STATE] = OrValue(OrValue(@, "totalReadingTime", 0),
                                       "sessionStartTime", clock)]
    ELSE [data EXCEPT
            ![SESSION_DATA] =
                IF Has(@, "bookmarkPositions")
                THEN [@ EXCEPT !.bookmarkPositions =
                        [i \in DOMAIN @ |->
                            Spread([id |-> <<"bookmark", clock, i>>, timestamp |-> clock],
                                   @[i])]]
                ELSE @]

\* the validate predicate of a built-in rule
builtinValidate(rule, data) ==
    IF rule.rule = 1
    THEN /\ Has(data[PREFERENCES], "lineHeight")
         /\ Has(data[PREFERENCES], "textAlign")
         /\ Has(data[PREFERENCES], "pageWidth")
    ELSE Has(data[SESSION_DATA], "bookmarkPositions") =>
            \A i \in DOMAIN data[SESSION_DATA].bookmarkPositions :
                /\ Has(data[SESSION_DATA].bookmarkPositions[i], "id")
                /\ Has(data[SESSION_DATA].bookmarkPositions[i], "timestamp")

\* migration.validate(migratedData): the rule's own predicate, or false when
\* a failing validator has been put in its place
validate(rule, data) == rule.rule \notin failingRules /\ builtinValidate(rule, data)

\* getCurrentVersion: the parsed record, or version 0.0.0 when the key is
\* absent or its text does not parse
getCurrentVersion(st) ==
    IF st[VERSION_KEY].kind = "json" THEN st[VERSION_KEY].val
    ELSE [version |-> <<0, 0, 0>>, timestamp |-> clock]

\* reading .version of the record, and splitting it, does not raise
VersionReadable(st) ==
    IsObject(getCurrentVersion(st)) /\ Has(getCurrentVersion(st), "version")

VersionRecord(version, migrationId) ==
    IF migrationId = << >> THEN [version |-> version, timestamp |-> clock]
    ELSE [version |-> version, timestamp |-> clock, migrationId |-> migrationId[1]]

\* setCurrentVersion that leaves the stored version record as it is
setCurrentVersionSkipped(w, version, migrationId) == w

\* setCurrentVersion that drops the migration id
setCurrentVersionUntagged(w, version, migrationId) ==
    IF SetItemThrows THEN createError(w, "STORAGE_NOT_AVAILABLE", "setCurrentVersion")
    ELSE [w EXCEPT !.st = SetItem(@, VERSION_KEY,
                                  JsonText(VersionRecord(version, << >>)))]

\* migrationId: << >> for undefined
setCurrentVersion(w, version, migrationId) ==
    IF SetItemThrows THEN createError(w, "STORAGE_NOT_AVAILABLE", "setCurrentVersion")
    ELSE [w EXCEPT !.st = SetItem(@, VERSION_KEY,
                                  JsonText(VersionRecord(version, migrationId)))]

Part(version, i) == IF i <= Len(version) THEN version[i] ELSE 0

versionCompare(version1, version2) ==
    LET n == IF Len(version1) > Len(version2) THEN Len(version1) ELSE Len(version2)
        differ == {i \in 1..n : Part(version1, i) # Part(version2, i)}
    IN  IF differ = {} THEN 0
        ELSE IF Part(version1, Min(differ)) < Part(version2, Min(differ)) THEN -1
        ELSE 1

needsMigration(st) == versionCompare(getCurrentVersion(st).version, CURRENT_VERSION) < 0

\* the rules at the positions in S, ordered by fromVersion (the sort is stable)
RECURSIVE SortedRules(_)
SortedRules(S) ==
    IF S = {} THEN << >>
    ELSE LET first == CHOOSE i \in S : \A j \in S :
                        \/ versionCompare(migrationRules[i].fromVersion,
                                          migrationRules[j].fromVersion) < 0
                        \/ /\ versionCompare(migrationRules[i].fromVersion,
                                             migrationRules[j].fromVersion) = 0
                           /\ i <= j
         IN  <<migrationRules[first]>> \o SortedRules(S \ {first})

\* the filter that leaves out a rule starting at the stored version itself
getApplicableMigrationsStrict(fromVersion) ==
    SortedRules({i \in 1..Len(migrationRules) :
        /\ versionCompare(fromVersion, migrationRules[i].fromVersion) < 0
        /\ versionCompare(migrationRules[i].toVersion, CURRENT_VERSION) <= 0})

getApplicableMigrations(fromVersion) ==
    SortedRules({i \in 1..Len(migrationRules) :
        /\ versionCompare(fromVersion, migrationRules[i].fromVersion) <= 0
        /\ versionCompare(migrationRules[i].toVersion, CURRENT_VERSION) <= 0})

hasExistingData(st) == \E key \in SliceKeys : st[key] # Absent

\* the order in which the engine loads and saves the four slices
SliceOrder == <<PREFERENCES, READING_STATE, UI_STATE, SESSION_DATA>>
NoData == [key \in SliceKeys |-> Alias]

\* { preferences: loadUserPreferences(), readingState: loadReadingState(), ... }
RECURSIVE LoadAll(_, _, _)
LoadNext(l, keys, data) == LoadAll(l.w, Tail(keys), [data EXCEPT ![Head(keys)] = l.val])
LoadAll(w, keys, data) ==
    IF keys = << >> THEN [w |-> w, data |-> data]
    ELSE LoadNext(LoadSlice(w, Head(keys)), keys, data)

\* saveMigratedData: the four slice saves in turn, "data.x || defaultX".  No
\* save raises, so handleStorageOperation returns each result at the first
\* attempt; a false result is dropped.
RECURSIVE SaveAll(_, _, _)
SaveAll(w, keys, data) ==
    IF keys = << >> THEN w
    ELSE SaveAll(SaveSlice(w, Head(keys),
                           IF Falsy(data[Head(keys)]) THEN Default(Head(keys))
                           ELSE data[Head(keys)]).w,
                 Tail(keys), data)
saveMigratedData(w, data) == SaveAll(w, SliceOrder, data)

\* cleanupOldBackups: the sets of backup ids that may be kept, the newest
\* maxBackups by the timestamp in the id; which of several ids of one
\* timestamp goes is up to the order in which localStorage lists its keys
cleanupOldBackups(ids) ==
    {kept \in SUBSET ids :
        /\ Cardinality(kept) = IF Cardinality(ids) > maxBackups THEN maxBackups
                               ELSE Cardinality(ids)
        /\ \A k \in kept : \A d \in ids \ kept : k.at >= d.at}

\* createBackup once the slices are loaded (l): [w, bk, threw]
BackupFrom(l, version, bk, id, kept) ==
    IF SetItemThrows THEN [w |-> l.w, bk |-> bk, threw |-> TRUE]
    ELSE [w |-> l.w, threw |-> FALSE,
          bk |-> {b \in bk \cup {[id |-> id,
                                  slices |-> [key \in SliceKeys |-> ToJSON(l.data[key])],
                                  version |-> version]} : b.id \in kept}]
createBackup(w, bk, id, kept) ==
    BackupFrom(LoadAll(w, SliceOrder, NoData), getCurrentVersion(w.st), bk, id, kept)

\* restoreFromBackup: [w, threw]
RestoreFrom(w, found) ==
    IF found = {} THEN [w |-> w, threw |-> TRUE]
    ELSE [w |-> setCurrentVersion(
                    saveMigratedData(w, (CHOOSE b \in found : TRUE).slices),
                    (CHOOSE b \in found : TRUE).version.version,
                    IF Has((CHOOSE b \in found : TRUE).version, "migrationId")
                    THEN <<(CHOOSE b \in found : TRUE).version.migrationId>>
                    ELSE << >>),
          threw |-> FALSE]
restoreFromBackup(w, bk, id) == RestoreFrom(w, {b \in bk : b.id = id})

\* the migrate/validate loop: [ok, data, invoked], invoked being the rules
\* whose migrate was called, in the order of the calls
RECURSIVE ApplyRules(_, _)
Invoked(rule, a) == [a EXCEPT !.invoked = <<rule.rule>> \o @]
\* the loop going on to the next rule after a failed validation
Validated1Continuing(rule, migrated, rest) ==
    Invoked(rule, [ApplyRules(migrated, rest) EXCEPT
                        !.ok = @ /\ validate(rule, migrated)])
Validated1(rule, migrated, rest) ==
    IF validate(rule, migrated) THEN Invoked(rule, ApplyRules(migrated, rest))
    ELSE [ok |-> FALSE, data |-> migrated, invoked |-> <<rule.rule>>]
ApplyRules(data, rules) ==
    IF rules = << >> THEN [ok |-> TRUE, data |-> data, invoked |-> << >>]
    ELSE Validated1(Head(rules), migrate(Head(rules), data), Tail(rules))

\* what a run of the engine leaves and returns
Ran(w, bk, ret, threw, applied, backedUp) ==
    [w |-> w, bk |-> bk, ret |-> ret, threw |-> threw, applied |-> applied,
     backedUp |-> backedUp]

\* performMigration after the rules ran (a): save and set the version, or
\* restore the backup and report
Finish(a, w, bk, id, rules) ==
    IF a.ok
    THEN Ran(setCurrentVersion(saveMigratedData(w, a.data), CURRENT_VERSION, <<id>>),
             bk, TRUE, FALSE, Len(rules), TRUE)
            @@ [invoked |-> a.invoked, saved |-> TRUE]
    ELSE Ran(createError(restoreFromBackup(w, bk, id).w, "MIGRATION_FAILED",
                         "performMigration"),
             bk, FALSE, FALSE, Len(rules), TRUE)
            @@ [invoked |-> a.invoked, saved |-> FALSE]

\* performMigration after createBackup (b)
MigrateFrom(b, l, id, rules) ==
    IF b.threw
    THEN Ran(createError(b.w, "MIGRATION_FAILED", "performMigration"),
             b.bk, FALSE, FALSE, 0, FALSE)
    ELSE Finish(ApplyRules(l.data, rules), l.w, b.bk, id, rules)

Migrate(b, id, rules) == MigrateFrom(b, LoadAll(b.w, SliceOrder, NoData), id, rules)

\* id: the id of the backup, should one be made; kept: the ids cleanup keeps
performMigration(w, bk, id, kept) ==
    IF ~VersionReadable(w.st) THEN Ran(w, bk, FALSE, TRUE, 0, FALSE)
    ELSE IF ~needsMigration(w.st) THEN Ran(w, bk, TRUE, FALSE, 0, FALSE)
    ELSE IF getApplicableMigrations(getCurrentVersion(w.st).version) = << >>
    THEN Ran(setCurrentVersion(w, CURRENT_VERSION, << >>), bk, TRUE, FALSE, 0, FALSE)
    ELSE Migrate(createBackup(w, bk, id, kept), id,
                 getApplicableMigrations(getCurrentVersion(w.st).version))

\* initialize without the check for existing data
initializeUnchecked(w, bk, id, kept) ==
    IF ~VersionReadable(w.st) THEN Ran(w, bk, FALSE, FALSE, 0, FALSE)
    ELSE IF needsMigration(w.st) THEN performMigration(w, bk, id, kept)
    ELSE Ran(w, bk, TRUE, FALSE, 0, FALSE)

initialize(w, bk, id, kept) ==
    IF ~hasExistingData(w.st)
    THEN Ran(setCurrentVersion(w, CURRENT_VERSION, << >>), bk, TRUE, FALSE, 0, FALSE)
    ELSE IF ~VersionReadable(w.st) THEN Ran(w, bk, FALSE, FALSE, 0, FALSE)
    ELSE IF needsMigration(w.st) THEN performMigration(w, bk, id, kept)
    ELSE Ran(w, bk, TRUE, FALSE, 0, FALSE)

\* A run of the engine.  The random part of a backup id is taken to be new
\* each time: the id is the time and a serial number.
NewBackupId == [at |-> clock, n |-> nextBackup]
EngineOps == {"initialize", "performMigration"}
\* the operation performed last, but for the passing of time
LastRun == IF last.op = "tick" THEN last.after ELSE last.op

EngineRan(op, r) ==
    /\ Len(r.w.log) <= MaxLog
    /\ r.backedUp => nextBackup <= MaxPasses
    /\ storage' = r.w.st
    /\ errorLog' = r.w.log
    /\ backups' = r.bk
    /\ nextBackup' = IF r.backedUp THEN nextBackup + 1 ELSE nextBackup
    /\ last' = [op |-> op, key |-> last.key, ret |-> r.ret, threw |-> r.threw,
                applied |-> r.applied, backedUp |-> r.backedUp, again |-> LastRun = op,
                invoked |-> IF Has(r, "invoked") THEN r.invoked ELSE << >>,
                saved |-> Has(r, "saved") /\ r.saved]
    /\ pc' = IF op = "initialize" /\ pc = "initializeApp" THEN "running" ELSE pc
    /\ app' = IF op = "initialize" /\ pc = "initializeApp"
              THEN [app EXCEPT !.migrationStatus = IF r.ret THEN "success" ELSE "failed"]
              ELSE app
    /\ UNCHANGED <<clock, quotaFull, timerVars, defaultVars, appVars, failingRules,
                   handling, nextBookmark, hookVars>>

Initialize ==
    \E kept \in cleanupOldBackups({b.id : b \in backups} \cup {NewBackupId}) :
    \E r \in {initialize(World, backups, NewBackupId, kept)} :
        EngineRan("initialize", r)

PerformMigration ==
    \E kept \in cleanupOldBackups({b.id : b \in backups} \cup {NewBackupId}) :
    \E r \in {performMigration(World, backups, NewBackupId, kept)} :
        EngineRan("performMigration", r)

\* what the engine may find in storage
VersionText(version) == JsonText([version |-> version, timestamp |-> 0])
VersionTexts ==
    {Absent, Garbage, JsonText(Prim("null")),
     VersionText(<<0, 9, 0>>), VersionText(<<0, 9, 5>>), VersionText(<<1, 0>>),
     VersionText(CURRENT_VERSION), VersionText(<<1, 0, 1>>)}
SliceTexts(key) ==
    {Absent, JsonText(EnvelopeAt0(LegacyValue(key))), JsonText(EnvelopeAt0(FirstValid(key)))}

\* backups left by earlier sessions, i ms before this one began
OldBackups ==
    {[id |-> [at |-> 0 - i, n |-> 0],
      slices |-> [key \in SliceKeys |-> FirstValid(key)],
      version |-> [version |-> <<0, 9, 0>>, timestamp |-> 0 - i]] : i \in 1..maxBackups}

InitMig ==
    \E v \in VersionTexts :
    \E p \in SliceTexts(PREFERENCES) :
    \E r \in SliceTexts(READING_STATE) :
    \E bk \in {{}, OldBackups} :
        InitEngine([EmptyStorage EXCEPT ![VERSION_KEY] = v,
                                        ![PREFERENCES] = p,
                                        ![READING_STATE] = r], PREFERENCES, {}, bk,
                   "running")

NextMig == Initialize \/ PerformMigration \/ Tick

\* the engine started on preferences of any kind, those that fail today's
\* validator included
InitPersist ==
    \E v \in VersionTexts :
    \E p \in StoredTexts(PREFERENCES) :
    \E r \in SliceTexts(READING_STATE) :
        InitEngine([EmptyStorage EXCEPT ![VERSION_KEY] = v,
                                        ![PREFERENCES] = p,
                                        ![READING_STATE] = r], PREFERENCES, {}, {},
                   "running")
SpecPersist == InitPersist /\ [][NextMig]_vars

\* the engine with storage that may refuse writes
NextQuota == Initialize \/ PerformMigration \/ QuotaChange \/ Tick
SpecQuota == InitMig /\ [][NextQuota]_vars
SpecMig == InitMig /\ [][NextMig]_vars

\* the engine with rule 1's validator made to fail
InitRollback ==
    \E v \in VersionTexts :
    \E p \in SliceTexts(PREFERENCES) :
    \E r \in SliceTexts(READING_STATE) :
    \E u \in {Absent, JsonText(EnvelopeAt0(FirstValid(UI_STATE)))} :
    \E d \in {Absent, JsonText(EnvelopeAt0(FirstValid(SESSION_DATA)))} :
        InitEngine([EmptyStorage EXCEPT ![VERSION_KEY] = v,
                                        ![PREFERENCES] = p,
                                        ![READING_STATE] = r,
                                        ![UI_STATE] = u,
                                        ![SESSION_DATA] = d], PREFERENCES, {1}, {},
                   "running")

SpecRollback == InitRollback /\ [][NextMig]_vars

\* The loop of performMigration run on a list of rules, as it would be were
\* both built-in rules applicable
RuleLists == {<<migrationRules[1], migrationRules[2]>>,
              <<migrationRules[2], migrationRules[1]>>,
              <<migrationRules[1]>>}

RulesApplied ==
    \E rules \in RuleLists :
    \E a \in {ApplyRules(LoadAll(World, SliceOrder, NoData).data, rules)} :
        /\ last' = [op |-> "applyRules", key |-> last.key, ok |-> a.ok,
                    invoked |-> a.invoked, rules |-> [i \in DOMAIN rules |-> rules[i].rule]]
        /\ UNCHANGED <<clock, storage, quotaFull, errorLog, timerVars, defaultVars,
                       appVars, backupVars>>

\* the engine with any of the validators made to fail
InitAbort ==
    \E v \in VersionTexts :
    \E p \in SliceTexts(PREFERENCES) :
    \E failing \in SUBSET {1, 2} \ {{}} :
        InitEngine([EmptyStorage EXCEPT ![VERSION_KEY] = v,
                                        ![PREFERENCES] = p], PREFERENCES, failing, {},
                   "running")

NextAbort == Initialize \/ PerformMigration \/ RulesApplied \/ Tick
SpecAbort == InitAbort /\ [][NextAbort]_vars

-----------------------------------------------------------------------------
(* Bookmarks: StorageService.addBookmark, removeBookmark, getBookmarks.  A   *)
(* bookmark id is the time and a serial number for its random part.          *)

generateBookmarkId == [at |-> clock, n |-> nextBookmark]

\* sessionData.bookmarkPositions without the bookmarks of the given id
WithoutId(list, bookmarkId) == SelectSeq(list, LAMBDA b : b.id # bookmarkId)

\* the session data was loaded (l) and the bookmark pushed: save it
BookmarkPushed(l, bookmark) ==
    [w |-> SaveSlice(l.w, SESSION_DATA,
                     [l.val EXCEPT !.bookmarkPositions = Append(@, bookmark)]).w,
     ret |-> bookmark,
     default |-> IF l.whole \/ "bookmarkPositions" \in l.shared
                 THEN [defaultSessionData EXCEPT !.bookmarkPositions = Append(@, bookmark)]
                 ELSE defaultSessionData]

\* addBookmark(chapterIndex, scrollPosition): [w, ret, default]
addBookmark(w, chapterIndex, scrollPosition) ==
    BookmarkPushed(LoadSlice(w, SESSION_DATA),
                   [id |-> generateBookmarkId, chapterIndex |-> chapterIndex,
                    scrollPosition |-> scrollPosition, timestamp |-> clock])

\* removeBookmark that saves whether or not a bookmark went
BookmarkFilteredAlwaysSaved(l, kept) ==
    [w |-> SaveSlice(l.w, SESSION_DATA, [l.val EXCEPT !.bookmarkPositions = kept]).w,
     ret |-> Len(kept) < Len(l.val.bookmarkPositions),
     default |-> IF l.whole THEN [defaultSessionData EXCEPT !.bookmarkPositions = kept]
                 ELSE defaultSessionData]

\* the session data was loaded (l) and filtered: save it if it got shorter
BookmarkFiltered(l, kept) ==
    [w |-> IF Len(kept) < Len(l.val.bookmarkPositions)
           THEN SaveSlice(l.w, SESSION_DATA, [l.val EXCEPT !.bookmarkPositions = kept]).w
           ELSE l.w,
     ret |-> Len(kept) < Len(l.val.bookmarkPositions),
     default |-> IF l.whole THEN [defaultSessionData EXCEPT !.bookmarkPositions = kept]
                 ELSE defaultSessionData]

\* removeBookmark(bookmarkId): [w, ret, default]
removeBookmark(w, bookmarkId) ==
    BookmarkFiltered(LoadSlice(w, SESSION_DATA),
                     WithoutId(LoadSlice(w, SESSION_DATA).val.bookmarkPositions, bookmarkId))

\* getBookmarks(): [w, ret]
getBookmarks(w) ==
    [w |-> LoadSlice(w, SESSION_DATA).w,
     ret |-> LoadSlice(w, SESSION_DATA).val.bookmarkPositions]

BookmarkOp(op, arg, r) ==
    /\ Len(r.w.log) <= MaxLog
    /\ storage' = r.w.st
    /\ errorLog' = r.w.log
    /\ last' = [op |-> op, key |-> SESSION_DATA, arg |-> arg, ret |-> r.ret]

BookmarkAdded ==
    /\ nextBookmark <= MaxBookmarks
    /\ \E chapterIndex \in {0, 1} :
       \E r \in {addBookmark(World, chapterIndex, 300)} :
            /\ BookmarkOp("addBookmark", <<chapterIndex, 300>>, r)
            /\ defaultSessionData' = r.default
    /\ nextBookmark' = nextBookmark + 1
    /\ UNCHANGED <<clock, quotaFull, timerVars, defaultReadingState, appVars, backups,
                   nextBackup, failingRules, pc, handling, app, hookVars>>

\* an id no bookmark has
NoSuchId == [at |-> 0, n |-> 0]
\* the ids of the bookmarks getBookmarks lists
ListedIds == {getBookmarks(World).ret[i].id : i \in DOMAIN getBookmarks(World).ret}

BookmarkRemoved ==
    /\ \E bookmarkId \in ListedIds \cup {NoSuchId} :
       \E r \in {removeBookmark(World, bookmarkId)} :
            /\ BookmarkOp("removeBookmark", bookmarkId, r)
            /\ defaultSessionData' = r.default
    /\ UNCHANGED <<clock, quotaFull, timerVars, defaultReadingState, appVars, backupVars>>

BookmarksListed ==
    /\ \E r \in {getBookmarks(World)} : BookmarkOp("getBookmarks", << >>, r)
    /\ UNCHANGED <<clock, quotaFull, timerVars, defaultVars, appVars, backupVars>>

\* session data with a bookmark made in an earlier session
oldBookmark == [id |-> [at |-> 0, n |-> 0 - 1], chapterIndex |-> 1, scrollPosition |-> 700,
                timestamp |-> 0]
withBookmark == [secondVisit EXCEPT !.bookmarkPositions = <<oldBookmark>>]
\* what a save of session data with averageReadingSpeed NaN has stored
nullSpeed == ToJSON([withBookmark EXCEPT !.averageReadingSpeed = NaN])

SessionTexts ==
    {Absent, JsonText(EnvelopeAt0(LegacyValue(SESSION_DATA)))}
        \cup {JsonText(EnvelopeAt0(v)) : v \in {secondVisit, withBookmark, nullSpeed}}

InitBookmarks ==
    \E d \in SessionTexts :
        InitWith([EmptyStorage EXCEPT ![SESSION_DATA] = d], SESSION_DATA)
NextBookmarks == BookmarkAdded \/ BookmarkRemoved \/ BookmarksListed \/ Tick
SpecBookmarks == InitBookmarks /\ [][NextBookmarks]_vars

-----------------------------------------------------------------------------
(* StorageService.clearAllData, among scroll tracking and bookmarks *)

\* removeItem for every key of STORAGE_KEYS
clearAllData(st) == [key \in DOMAIN st |-> IF key \in STORAGE_KEYS THEN Absent ELSE st[key]]

ClearAllData ==
    /\ storage' = clearAllData(storage)
    /\ last' = [op |-> "clearAllData", key |-> last.key]
    /\ UNCHANGED <<clock, quotaFull, errorLog, timerVars, defaultVars, appVars, backupVars>>

NextClear == ScrollTracked \/ BookmarkAdded \/ ClearAllData \/ TimerFires \/ Tick
SpecClear == InitBookmarks /\ [][NextClear]_vars

\* importUserData(jsonData).  A parsed snapshot is modelled as the function
\* from the slice keys to the slice the snapshot holds for the key, << >> when
\* it holds none: data.preferences is snapshot[PREFERENCES], and so on.
RECURSIVE ImportAll(_, _, _)
ImportAll(w, keys, data) ==
    IF keys = << >> THEN w
    ELSE ImportAll(IF data[Head(keys)] = << >> THEN w
                   ELSE SaveSlice(w, Head(keys), data[Head(keys)][1]).w,
                   Tail(keys), data)

\* [w, ret]: JSON.parse raises on text that is no JSON, and reading a
\* property of a parsed null raises; both are caught
importUserData(w, jsonData) ==
    IF jsonData.kind = "garbage" \/ jsonData.val = Prim("null")
    THEN [w |-> w, ret |-> FALSE]
    ELSE IF ~IsObject(jsonData.val) THEN [w |-> w, ret |-> TRUE]
    ELSE [w |-> ImportAll(w, SliceOrder, jsonData.val), ret |-> TRUE]

\* the slices a snapshot may hold for a key: none, a valid or an invalid one
SnapshotSlices(key) == {<< >>, <<FirstValid(key)>>} \cup {<<v>> : v \in InvalidValues(key)}
Snapshot(p, r, u, d) ==
    JsonText((PREFERENCES :> p) @@ (READING_STATE :> r) @@ (UI_STATE :> u)
                @@ (SESSION_DATA :> d))
\* snapshots, text that is no JSON, and JSON that is no object
Snapshots ==
    {Garbage, JsonText(Prim("null")), JsonText(Prim("0"))}
        \cup {Snapshot(p, r, u, d) : p \in SnapshotSlices(PREFERENCES),
                                     r \in SnapshotSlices(READING_STATE),
                                     u \in SnapshotSlices(UI_STATE),
                                     d \in SnapshotSlices(SESSION_DATA)}

ImportUserData ==
    \E jsonData \in Snapshots :
    \E r \in {importUserData(World, jsonData)} :
        /\ Len(r.w.log) <= MaxLog
        /\ storage' = r.w.st
        /\ errorLog' = r.w.log
        /\ last' = [op |-> "importUserData", key |-> last.key, arg |-> jsonData,
                    ret |-> r.ret]
        /\ UNCHANGED <<clock, quotaFull, timerVars, defaultVars, appVars, backupVars>>

NextImport == ImportUserData \/ ClearAllData
SpecImport == InitSlices /\ [][NextImport]_vars

-----------------------------------------------------------------------------
(* StorageErrorHandler.handleStorageOperation.  The operation passed is any  *)
(* function: what an attempt of it does is the environment's choice among    *)
(* returning, raising a quota DOMException, raising another DOMException and *)
(* raising any other error.                                                  *)

keptOnCleanup == 5
BackoffBase == 100
defaultMaxRetries == 3

Outcomes == {"ok", "quota", "dom", "error"}

RECURSIVE Pow2(_)
Pow2(n) == IF n = 0 THEN 1 ELSE 2 * Pow2(n - 1)

\* the last n elements of a list
LastOf(list, n) == SubSeq(list, Len(list) - n + 1, Len(list))

\* freeUpStorage: trims the critical errors to the last 5; no temp- or
\* cache- key is ever written, and all of it is in a try block
freeUpStorage(st) ==
    IF st[CRITICAL_KEY].kind # "json" \/ SetItemThrows THEN st
    ELSE IF Len(st[CRITICAL_KEY].val) > keptOnCleanup
    THEN SetItem(st, CRITICAL_KEY, JsonText(LastOf(st[CRITICAL_KEY].val, keptOnCleanup)))
    ELSE st

\* the loop without its bound: it waits and tries again after every failure
BackoffUnbounded(w, h) ==
    [w |-> w, h |-> [h EXCEPT !.state = "waiting", !.attempt = @ + 1,
                              !.due = clock + Pow2(h.attempt) * BackoffBase]]

\* the call goes on after a failed attempt: it waits and tries again, or,
\* past the last attempt, throws the last error
Backoff(w, h) ==
    IF h.attempt < h.maxRetries
    THEN [w |-> w, h |-> [h EXCEPT !.state = "waiting", !.attempt = @ + 1,
                                   !.due = clock + Pow2(h.attempt) * BackoffBase]]
    ELSE [w |-> w, h |-> [h EXCEPT !.state = "threw"]]

Returned(w, h, result) == [w |-> w, h |-> [h EXCEPT !.state = "returned", !.result = result]]

\* the catch block without the fallback on the last quota failure
FailedNoFallback(w, h, outcome) ==
    IF outcome = "quota"
    THEN Backoff([createError(w, "QUOTA_EXCEEDED", "operation")
                    EXCEPT !.st = freeUpStorage(@)], h)
    ELSE IF outcome = "dom"
    THEN IF h.fallback
         THEN Returned(createError(w, "STORAGE_NOT_AVAILABLE", "operation"), h, "fallback")
         ELSE Backoff(createError(w, "STORAGE_NOT_AVAILABLE", "operation"), h)
    ELSE Backoff(createError(w, "UNKNOWN_ERROR", "operation"), h)

\* the catch block retrying after any storage exception, fallback or not
FailedAlwaysRetrying(w, h, outcome) ==
    IF outcome = "quota"
    THEN IF h.attempt = h.maxRetries /\ h.fallback
         THEN Returned(createError(w, "QUOTA_EXCEEDED", "operation"), h, "fallback")
         ELSE Backoff([createError(w, "QUOTA_EXCEEDED", "operation")
                         EXCEPT !.st = freeUpStorage(@)], h)
    ELSE IF outcome = "dom"
    THEN Backoff(createError(w, "STORAGE_NOT_AVAILABLE", "operation"), h)
    ELSE Backoff(createError(w, "UNKNOWN_ERROR", "operation"), h)

\* the catch block of an attempt
Failed(w, h, outcome) ==
    IF outcome = "quota"
    THEN IF h.attempt = h.maxRetries /\ h.fallback
         THEN Returned(createError(w, "QUOTA_EXCEEDED", "operation"), h, "fallback")
         ELSE Backoff([createError(w, "QUOTA_EXCEEDED", "operation")
                         EXCEPT !.st = freeUpStorage(@)], h)
    ELSE IF outcome = "dom"
    THEN IF h.fallback
         THEN Returned(createError(w, "STORAGE_NOT_AVAILABLE", "operation"), h, "fallback")
         ELSE Backoff(createError(w, "STORAGE_NOT_AVAILABLE", "operation"), h)
    ELSE Backoff(createError(w, "UNKNOWN_ERROR", "operation"), h)

\* one pass of the loop: attempt h.attempt with the given outcome
Attempt(w, h, outcome) ==
    IF outcome = "ok" THEN Returned(w, [h EXCEPT !.tried = Append(@, outcome)], "operation")
    ELSE Failed(w, [h EXCEPT !.tried = Append(@, outcome)], outcome)

Attempted(r) ==
    /\ Len(r.w.log) <= MaxLog
    /\ storage' = r.w.st
    /\ errorLog' = r.w.log
    /\ handling' = r.h
    /\ last' = [op |-> "handleStorageOperation", key |-> last.key]
    /\ UNCHANGED <<clock, quotaFull, timerVars, defaultVars, appVars, backups,
                   nextBackup, failingRules, pc, nextBookmark, app, hookVars>>

RetryCounts == 1..defaultMaxRetries

\* handleStorageOperation(operation, name, fallback, maxRetries) is called
\* and makes its first attempt
HandleStorageOperation ==
    /\ handling.state # "waiting"
    /\ \E maxRetries \in RetryCounts, fallback \in BOOLEAN, outcome \in Outcomes :
       \E r \in {Attempt(World, [state |-> "running", attempt |-> 1,
                                  maxRetries |-> maxRetries, fallback |-> fallback,
                                  tried |-> << >>, due |-> 0, result |-> "none"],
                          outcome)} :
            Attempted(r)

\* the backoff delay is over: the next attempt
Retried ==
    /\ handling.state = "waiting"
    /\ handling.due <= clock
    /\ \E outcome \in Outcomes :
       \E r \in {Attempt(World, handling, outcome)} : Attempted(r)

InitRetry == InitWith(EmptyStorage, PREFERENCES)
NextRetry == HandleStorageOperation \/ Retried \/ Tick
SpecRetry == InitRetry /\ [][NextRetry]_vars

\* A call made while the log and the clock of the model have room for all its
\* attempts; timers fire and time passes
CallMade ==
    /\ Len(errorLog) + defaultMaxRetries <= MaxLog
    /\ clock + Pow2(defaultMaxRetries) * BackoffBase <= MaxTime
    /\ HandleStorageOperation

NextCalls == CallMade \/ Retried \/ Tick
SpecCalls == InitRetry /\ [][NextCalls]_vars /\ WF_vars(Retried) /\ WF_vars(Tick)

-----------------------------------------------------------------------------
(* Reported errors: StorageErrorHandler.createError with any code, on a      *)
(* critical-error list left by earlier sessions.                             *)

ErrorCodes == {"STORAGE_NOT_AVAILABLE", "QUOTA_EXCEEDED", "DATA_CORRUPTION",
               "VALIDATION_FAILED", "SERIALIZATION_ERROR", "DESERIALIZATION_ERROR",
               "MIGRATION_FAILED", "NETWORK_ERROR", "UNKNOWN_ERROR"}

ErrorReported ==
    /\ Len(errorLog) < MaxLog
    /\ \E code \in ErrorCodes :
       \E w \in {createError(World, code, "report")} :
        /\ storage' = w.st
        /\ errorLog' = w.log
        /\ last' = [op |-> "createError", key |-> last.key, code |-> code]
    /\ UNCHANGED <<clock, quotaFull, timerVars, defaultVars, appVars, backupVars>>

\* handleStorageOperation's cleanup after a quota error
StorageFreed ==
    /\ storage' = freeUpStorage(storage)
    /\ last' = [op |-> "freeUpStorage", key |-> last.key]
    /\ UNCHANGED <<clock, quotaFull, errorLog, timerVars, defaultVars, appVars, backupVars>>

EarlierOperations == <<"e1", "e2", "e3", "e4", "e5", "e6", "e7", "e8", "e9", "e10">>
EarlierErrors(n) ==
    [i \in 1..n |-> [code |-> "UNKNOWN_ERROR", operation |-> EarlierOperations[i]]]

InitErrors ==
    \E t \in {Absent} \cup {JsonText(EarlierErrors(n)) :
                                n \in (maxCriticalErrors - 2)..maxCriticalErrors} :
        InitWith([EmptyStorage EXCEPT ![CRITICAL_KEY] = t], PREFERENCES)

NextErrors == ErrorReported \/ StorageFreed
SpecErrors == InitErrors /\ [][NextErrors]_vars

-----------------------------------------------------------------------------
(* The mount of App: the effects of its hooks run in the order of the hook   *)
(* calls, useUIState, useSessionTracking, then App's own initializeApp.      *)

\* StorageService.initializeSession: [w, ret, val]
SessionFrom(l) ==
    Spread(l.val, [sessionId |-> clock, lastVisitTime |-> clock,
                   visitCount |-> IF IsNumber(l.val.visitCount) /\ l.val.visitCount >= 0
                                  THEN l.val.visitCount + 1 ELSE NaN])
initializeSession(w) ==
    [w |-> SaveSlice(LoadSlice(w, SESSION_DATA).w, SESSION_DATA,
                     SessionFrom(LoadSlice(w, SESSION_DATA))).w,
     val |-> SessionFrom(LoadSlice(w, SESSION_DATA))]

\* an effect ran: it left world w and the next effect is at
EffectRan(op, w, at) ==
    /\ Len(w.log) <= MaxLog
    /\ storage' = w.st
    /\ errorLog' = w.log
    /\ pc' = at
    /\ last' = [op |-> op, key |-> last.key]
    /\ UNCHANGED <<clock, quotaFull, timerVars, defaultVars, appVars, backups,
                   nextBackup, failingRules, handlerVars>>

\* useUIState, "Load UI state from storage on mount": the state it sets is
\* rendered after the effects of this pass
UIStateLoaded ==
    /\ pc = "uiLoad"
    /\ \E l \in {LoadSlice(World, UI_STATE)} : EffectRan("loadUIState", l.w, "uiSave")

\* useUIState, "Auto-save UI state when it changes", at mount
UIStateSaved ==
    /\ pc = "uiSave"
    /\ \E r \in {SaveSlice(World, UI_STATE, uiState)} :
            EffectRan("saveUIState", r.w, "sessionInit")

\* useSessionTracking, "Initialize session on mount"
SessionInitialized ==
    /\ pc = "sessionInit"
    /\ \E r \in {initializeSession(World)} :
            EffectRan("initializeSession", r.w, "sessionSave")

\* useSessionTracking, "Save session data when it changes", at mount
SessionSaved ==
    /\ pc = "sessionSave"
    /\ \E r \in {SaveSlice(World, SESSION_DATA, defaultSessionData)} :
            EffectRan("saveSessionData", r.w, "initializeApp")

\* App, initializeApp: DataMigration.initialize()
AppInitialized == pc = "initializeApp" /\ Initialize

\* what the previous session left
InitStart ==
    \E v \in VersionTexts :
    \E p \in SliceTexts(PREFERENCES) :
    \E r \in SliceTexts(READING_STATE) :
    \E u \in SliceTexts(UI_STATE) :
    \E d \in SliceTexts(SESSION_DATA) :
        InitEngine([EmptyStorage EXCEPT ![VERSION_KEY] = v,
                                        ![PREFERENCES] = p,
                                        ![READING_STATE] = r,
                                        ![UI_STATE] = u,
                                        ![SESSION_DATA] = d], PREFERENCES, {}, {},
                   "uiLoad")

NextStart ==
    UIStateLoaded \/ UIStateSaved \/ SessionInitialized \/ SessionSaved \/ AppInitialized
SpecStart == InitStart /\ [][NextStart]_vars

-----------------------------------------------------------------------------
(* App after the mount effects: the table of contents arrives, then the
   "Restore reading state" effect runs. *)

\* x >= 0 && x < n, for a number or null x (null compares as 0)
InChapterRange(x, n) ==
    IF x = NaN THEN FALSE
    ELSE IF x = JSNull THEN 0 < n
    ELSE x >= 0 /\ x < n

AppStep(op, w, index, a) ==
    /\ pc = "running"
    /\ Len(w.log) <= MaxLog
    /\ storage' = w.st
    /\ errorLog' = w.log
    /\ currentChapterIndex' = index
    /\ app' = a
    /\ last' = [op |-> op, key |-> READING_STATE]
    /\ UNCHANGED <<clock, quotaFull, timerVars, defaultVars, uiState, navSaved,
                   backups, nextBackup, failingRules, pc, handling, nextBookmark,
                   hookVars>>

\* loadTOC: the fetched list is set as chapters
TOCLoaded ==
    /\ app.chapters = 0
    /\ \E n \in {0, NumChapters} :
            AppStep("loadTOC", World, currentChapterIndex, [app EXCEPT !.chapters = n])

\* the effect without setIsStateRestored(true)
restoreKeepsFlag(a) == a

restoreSetsFlag(a) == [a EXCEPT !.isStateRestored = TRUE]

\* the effect "Restore reading state immediately after migration and TOC load"
RestoreEffect ==
    IF app.chapters > 0 /\ app.migrationStatus = "success" /\ ~app.isStateRestored
    THEN \E l \in {LoadSlice(World, READING_STATE)} :
            AppStep("restore", l.w,
                    IF InChapterRange(l.val.currentChapterIndex, app.chapters)
                    THEN l.val.currentChapterIndex
                    ELSE currentChapterIndex,
                    restoreSetsFlag(app))
    ELSE AppStep("effectSkipped", World, currentChapterIndex, app)

\* the chapter is shown once the state is restored; then the reader navigates
Reading ==
    /\ pc = "running"
    /\ app.isStateRestored
    /\ (goToPreviousChapter \/ goToNextChapter \/ ChapterSelected)

\* a valid stored state whose chapter is beyond the list, and one with a
\* negative index
beyondList == [initialReadingState EXCEPT !.currentChapterIndex = NumChapters]
beforeList == [initialReadingState EXCEPT !.currentChapterIndex = 0 - 1]

ReloadTexts ==
    SliceTexts(READING_STATE)
        \cup {Garbage, JsonText(EnvelopeAt0(beyondList)), JsonText(EnvelopeAt0(beforeList))}

InitReload ==
    \E v \in VersionTexts :
    \E r \in ReloadTexts :
        /\ InitEngine([EmptyStorage EXCEPT ![VERSION_KEY] = v, ![READING_STATE] = r],
                      READING_STATE, {}, {}, "initializeApp")

NextReload == AppInitialized \/ TOCLoaded \/ RestoreEffect \/ Reading
\* React runs an effect after the render in which its dependencies changed
SpecReload == InitReload /\ [][NextReload]_vars /\ WF_vars(RestoreEffect)

-----------------------------------------------------------------------------
(* The writers of novel-session-data: useSessionTracking, which keeps the    *)
(* slice in its state and saves the state whenever it changes, and the       *)
(* chapter effect of useScrollTracking, which loads, changes and saves the   *)
(* stored slice.                                                             *)

\* a + b for numbers a (NaN, or null read as 0) and b
Plus(a, b) == IF a = NaN THEN NaN ELSE IF a = JSNull THEN b ELSE a + b
Includes(list, x) == \E i \in DOMAIN list : list[i] = x

SessionStep(op, w, data, default, at, added) ==
    /\ Len(w.log) <= MaxLog
    /\ storage' = w.st
    /\ errorLog' = w.log
    /\ sessionData' = data
    /\ defaultSessionData' = default
    /\ pc' = at
    /\ nextBookmark' = nextBookmark + added
    /\ last' = [op |-> op, key |-> SESSION_DATA]
    /\ UNCHANGED <<clock, quotaFull, timerVars, defaultReadingState, appVars, backups,
                   nextBackup, failingRules, handling, app, scrollTimeoutRef>>

\* the save effect of useSessionTracking after the state became data
SessionChanged(op, w, data, default, added) ==
    SessionStep(op, SaveSlice(w, SESSION_DATA, data).w, data, default, "running", added)

\* mount: initializeSession, the save effect of the first render (the state
\* is still the default object), then the save effect of the new state
SessionMounted ==
    /\ pc = "sessionInit"
    /\ \E r \in {initializeSession(World)} :
            SessionChanged("initializeSession",
                           SaveSlice(r.w, SESSION_DATA, defaultSessionData).w, r.val,
                           defaultSessionData, 0)

\* the interval: updateSessionTime.  lastSaveTimeRef is set where
\* lastVisitTime is, at mount and here.
updateSessionTime(prev) ==
    [prev EXCEPT !.totalReadingTime =
                    Plus(@, (clock - prev.lastVisitTime + 500) \div 1000),
                 !.lastVisitTime = clock]
SessionTimeUpdated ==
    /\ pc = "running"
    /\ SessionChanged("updateSessionTime", World, updateSessionTime(sessionData),
                      defaultSessionData, 0)

\* addChapterToRead: the state, and so the stored slice, are left alone when
\* the chapter is in the list
addChapterToRead(prev, chapterIndex) ==
    [prev EXCEPT !.chaptersRead = Append(@, chapterIndex)]
\* the chapters read in a run
ChaptersShown == {0, 1}
ChapterAdded ==
    /\ pc = "running"
    /\ \E chapterIndex \in ChaptersShown :
        /\ ~Includes(sessionData.chaptersRead, chapterIndex)
        /\ SessionChanged("addChapterToRead", World,
                          addChapterToRead(sessionData, chapterIndex),
                          defaultSessionData, 0)

\* updateReadingSpeed(speed), speed > 0: Math.round(0.7 * current + 0.3 * speed)
ReadingSpeeds == {200}
updateReadingSpeed(prev, speed) ==
    [prev EXCEPT !.averageReadingSpeed =
        IF @ = 0 THEN speed
        ELSE IF @ = NaN THEN NaN
        ELSE (7 * Plus(@, 0) + 3 * speed + 5) \div 10]
ReadingSpeedUpdated ==
    /\ pc = "running"
    /\ \E speed \in ReadingSpeeds :
        /\ updateReadingSpeed(sessionData, speed) # sessionData
        /\ SessionChanged("updateReadingSpeed", World,
                          updateReadingSpeed(sessionData, speed), defaultSessionData, 0)

\* the hook's addBookmark: StorageService.addBookmark, then the bookmark is
\* appended to the state
SessionBookmarkAdded ==
    /\ pc = "running"
    /\ nextBookmark <= MaxBookmarks
    /\ \E chapterIndex \in {0, 1} :
       \E r \in {addBookmark(World, chapterIndex, 300)} :
            SessionChanged("sessionAddBookmark", r.w,
                           [sessionData EXCEPT !.bookmarkPositions = Append(@, r.ret)],
                           r.default, 1)

\* useScrollTracking, "Update chapter reading analytics when chapter changes":
\* [w, default]
ChapterPushed(l, chapterIndex) ==
    IF Includes(l.val.chaptersRead, chapterIndex)
    THEN [w |-> l.w, default |-> defaultSessionData]
    ELSE [w |-> SaveSlice(l.w, SESSION_DATA,
                          [l.val EXCEPT !.chaptersRead = Append(@, chapterIndex)]).w,
          default |-> IF l.whole \/ "chaptersRead" \in l.shared
                      THEN [defaultSessionData EXCEPT
                                !.chaptersRead = Append(@, chapterIndex)]
                      ELSE defaultSessionData]
ChapterTracked ==
    /\ pc = "running"
    /\ \E chapterIndex \in ChaptersShown :
       \E r \in {ChapterPushed(LoadSlice(World, SESSION_DATA), chapterIndex)} :
            SessionStep("trackChapter", r.w, sessionData, r.default, "running", 0)

InitSession ==
    \E d \in {Absent, JsonText(EnvelopeAt0(withBookmark))} :
        InitEngine([EmptyStorage EXCEPT ![SESSION_DATA] = d], SESSION_DATA, {}, {},
                   "sessionInit")
NextSession ==
    \/ SessionMounted
    \/ SessionTimeUpdated
    \/ ChapterAdded
    \/ ReadingSpeedUpdated
    \/ SessionBookmarkAdded
    \/ ChapterTracked
    \/ Tick
SpecSession == InitSession /\ [][NextSession]_vars

-----------------------------------------------------------------------------
(* Claims about the store *)

StoredData(key) == storage[key].val.data
HoldsValid(key) ==
    /\ storage[key].kind = "json"
    /\ IsObject(storage[key].val)
    /\ Has(storage[key].val, "data")
    /\ Validator(key, StoredData(key))

\* C5: a slice save of a candidate that fails the slice's validator returns
\* false, appends a VALIDATION_FAILED error to the error log and leaves the
\* value stored under the slice's key as it was.
C5_InvalidSaveRejected ==
    [][(last'.op = "save" /\ ~Validator(last'.key, last'.arg)) =>
        /\ last'.ret = FALSE
        /\ ~last'.threw
        /\ storage'[last'.key] = storage[last'.key]
        /\ Len(errorLog') = Len(errorLog) + 1
        /\ errorLog'[Len(errorLog')].code = "VALIDATION_FAILED"]_vars

C5_Witness ==
    /\ last.op = "save"
    /\ ~Validator(last.key, last.arg)
    /\ last.ret = FALSE
    /\ HoldsValid(last.key)

\* C8: saveToStorage never throws; if the value does not serialize or the
\* write raises it returns false and the key keeps its text; if it returns
\* true the key holds the text of {data: value, version, timestamp}; no other
\* key is written.
C8_SaveToStorage ==
    [][last'.op = "saveToStorage" =>
        /\ ~last'.threw
        /\ (~Serializable(last'.arg) \/ quotaFull) => last'.ret = FALSE
        /\ last'.ret = FALSE => storage'[last'.key] = storage[last'.key]
        /\ last'.ret = TRUE =>
              storage'[last'.key] = JsonText(ToJSON(Envelope(last'.arg)))
        /\ \A k \in AllKeys \ {last'.key} : storage'[k] = storage[k]]_vars

C8_Witness ==
    /\ last.op = "saveToStorage"
    /\ last.ret = FALSE
    /\ quotaFull
    /\ HoldsValid(last.key)

\* the parsed text has no usable data property: it is no object, has no data,
\* or its data is empty (null, 0, false, ""), what "||" takes for empty
EmptyData(parsed) == ~IsObject(parsed) \/ ~Has(parsed, "data") \/ Falsy(parsed.data)

\* C9: loadFromStorage returns the default when the key is absent, when the
\* text does not parse or when the parsed envelope has no usable data, and the
\* envelope's data otherwise; it never throws and never writes to storage.
C9_LoadFromStorage ==
    [][last'.op = "loadFromStorage" =>
        /\ ~last'.threw
        /\ storage' = storage
        /\ last'.val =
              IF \/ storage[last'.key].kind \in {"absent", "garbage"}
                 \/ EmptyData(storage[last'.key].val)
              THEN Default(last'.key)
              ELSE storage[last'.key].val.data]_vars

C9_Witness ==
    /\ last.op = "loadFromStorage"
    /\ storage[last.key].kind = "json"
    /\ ~EmptyData(storage[last.key].val)
    /\ last.val = StoredData(last.key)
    /\ last.val # Default(last.key)

-----------------------------------------------------------------------------
(* Claims about debouncedSave *)

WritesOf(key, id) == {j \in 1..Len(writes[key]) : writes[key][j].id = id}
\* call i on key was followed by a call made while i's timer was still pending
Superseded(key, i) == i < Len(calls[key]) /\ calls[key][i + 1].superseding
EnvelopeText(v, at) == JsonText(ToJSON([data |-> v, version |-> VERSION, timestamp |-> at]))

\* C3: in a run of debouncedSave calls on one key, each made while the timer
\* of the one before is pending, no call but the last is ever written; the
\* last is written exactly once, one delay after it was made, with its own
\* value; and a key never has more than one pending timer.
C3_DebounceCoalesces ==
    \A key \in SliceKeys :
        /\ Cardinality(PendingFor(key)) <= 1
        /\ \A j \in 1..Len(writes[key]) :
              \E i \in 1..Len(calls[key]) : calls[key][i].id = writes[key][j].id
        /\ \A i \in 1..Len(calls[key]) :
              LET c == calls[key][i]
                  pending == \E t \in timeouts : t.id = c.id
              IN  IF Superseded(key, i)
                  THEN WritesOf(key, c.id) = {} /\ ~pending
                  ELSE /\ pending <=> WritesOf(key, c.id) = {}
                       /\ Cardinality(WritesOf(key, c.id)) <= 1
                       /\ pending => clock <= c.at + c.delay
                       /\ \A j \in WritesOf(key, c.id) :
                             /\ writes[key][j].at = c.at + c.delay
                             /\ writes[key][j].text = EnvelopeText(c.val, c.at + c.delay)

C3_Witness ==
    \E key \in SliceKeys :
        /\ Len(calls[key]) >= 2
        /\ Superseded(key, 1)
        /\ calls[key][1].val # calls[key][2].val
        /\ WritesOf(key, calls[key][2].id) # {}
        /\ storage[key] = EnvelopeText(calls[key][2].val, calls[key][2].at + calls[key][2].delay)

\* C4: a debouncedSave call for a key, and the firing of that key's timer,
\* leave every other key's stored text, pending timer and timer-map entry as
\* they were.
C4_TimersPerKey ==
    [][\A A \in SliceKeys :
         (last'.op \in {"debouncedSave", "fire"} /\ last'.key = A) =>
            \A B \in SliceKeys \ {A} :
                /\ storage'[B] = storage[B]
                /\ {t \in timeouts' : t.key = B} = {t \in timeouts : t.key = B}
                /\ debounceTimers'[B] = debounceTimers[B]]_vars

C4_Witness ==
    /\ last.op = "fire"
    /\ \E B \in SliceKeys \ {last.key} :
          /\ PendingFor(B) # {}
          /\ debounceTimers[B] # 0
          /\ storage[B] # Absent

-----------------------------------------------------------------------------
(* Claims about the reading state *)

HasData(key) ==
    /\ storage[key].kind = "json"
    /\ IsObject(storage[key].val)
    /\ Has(storage[key].val, "data")
    /\ IsObject(storage[key].val.data)

\* the chapter index held under novel-reading-state, if any
StoredIndex ==
    IF HasData(READING_STATE) /\ Has(StoredData(READING_STATE), "currentChapterIndex")
    THEN <<StoredData(READING_STATE).currentChapterIndex>>
    ELSE << >>

\* C1: the chapter index held under novel-reading-state changes only in a
\* step of goToPreviousChapter, goToNextChapter or selectChapter: never in an
\* updateScrollPosition call, never when a debounce timer fires.
C1_IndexOnlyByNavigation ==
    [][(StoredIndex # << >> /\ StoredIndex' # StoredIndex) => last'.op = "navigate"]_vars

\* the updateScrollPosition call that set timer id
CallOf(id) ==
    LET cs == calls[READING_STATE]
    IN  cs[CHOOSE i \in 1..Len(cs) : cs[i].id = id]

\* C2: when the timer of an updateScrollPosition(c, s) call fires, and the
\* call was made after a navigation save stored chapter index N with no
\* navigation since, the stored reading state has currentChapterIndex = N,
\* scrollPosition = s and readingProgress[c].scrollPosition = s.
C2_NavigationThenScroll ==
    (last.op = "fire" /\ last.ret /\ last.key = READING_STATE) =>
        LET u == CallOf(last.id)
            stored == StoredData(READING_STATE)
        IN  (u.nav # << >> /\ ~u.navAfter) =>
                /\ stored.currentChapterIndex = u.nav[1]
                /\ stored.scrollPosition = u.arg[2]
                /\ stored.readingProgress[u.arg[1]].scrollPosition = u.arg[2]

\* C6: the value stored under each of the four slice keys passes the
\* slice's validator.
C6_StoredSlicesValid ==
    \A key \in SliceKeys : storage[key] = Absent \/ HoldsValid(key)

\* C7: a load that follows a successful save of a value the validator
\* accepts returns that value.
C7_RoundTrip ==
    [][(/\ last.op = "save" /\ last.ret
        /\ Validator(last.key, last.arg)
        /\ last'.op = "load") => last'.val = last.arg]_vars

-----------------------------------------------------------------------------
(* Claims about migration *)

\* the version string of the stored version record, if it has one
StoredVersionOf(st) ==
    IF st[VERSION_KEY].kind = "json" /\ VersionReadable(st)
    THEN <<st[VERSION_KEY].val.version>>
    ELSE << >>

SliceValue(st, key) ==
    IF st[key].kind = "json" /\ IsObject(st[key].val) /\ Has(st[key].val, "data")
    THEN [kind |-> "json", data |-> st[key].val.data]
    ELSE st[key]
VersionValue(st) ==
    IF st[VERSION_KEY].kind = "json" THEN [kind |-> "json", version |-> StoredVersionOf(st)]
    ELSE st[VERSION_KEY]

\* performMigration made its backup and then reported failure
RolledBack(l) == l.op = "performMigration" /\ l.backedUp /\ ~l.ret

\* C11: when a rule's validate predicate returns false during
\* performMigration, then on return each of the four slice keys and the
\* version record hold what they held when performMigration started; a key
\* or a version record that was absent is still absent.
C11_RollbackRestores ==
    [][RolledBack(last') =>
        /\ \A key \in SliceKeys : SliceValue(storage', key) = SliceValue(storage, key)
        /\ VersionValue(storage') = VersionValue(storage)]_vars

\* none of the four slice keys exists
FreshInstall(st) == \A key \in SliceKeys : st[key] = Absent

\* C12: when none of the four slice keys exists as initialize runs, it applies
\* no rule, makes no backup, leaves the version record holding the current
\* version and returns true; the slice keys are still absent.
C12_FreshInstall ==
    [][(last'.op = "initialize" /\ FreshInstall(storage)) =>
        /\ last'.ret /\ ~last'.threw
        /\ last'.applied = 0 /\ ~last'.backedUp
        /\ backups' = backups
        /\ StoredVersionOf(storage') = <<CURRENT_VERSION>>
        /\ FreshInstall(storage')]_vars

C12_Witness ==
    /\ last.op = "initialize" /\ last.ret
    /\ FreshInstall(storage)
    /\ backups = {}
    /\ clock > 0
    /\ storage[VERSION_KEY] = JsonText(VersionRecord(CURRENT_VERSION, << >>))

\* C13: when performMigration has applied at least one rule and every rule
\* passed, the version record holds the target version and, as migrationId,
\* the id of the backup made at the start of that pass, and that backup is in
\* storage.
C13_SuccessTagged ==
    [][(last'.op \in EngineOps /\ last'.ret /\ last'.applied > 0) =>
        /\ storage'[VERSION_KEY] = JsonText(VersionRecord(CURRENT_VERSION, <<NewBackupId>>))
        /\ \E b \in backups' \ backups : b.id = NewBackupId]_vars

C13_Witness ==
    /\ last.op = "performMigration" /\ last.ret /\ last.applied > 0
    /\ storage[VERSION_KEY].val.version = CURRENT_VERSION
    /\ \E b \in backups : b.id = storage[VERSION_KEY].val.migrationId /\ b.id.at = clock
    /\ \E b \in backups : b \in OldBackups
    /\ Cardinality(backups) = maxBackups
    /\ clock > 0

\* C14: at most 3 backups are in storage; after a pass that made a backup
\* they are the most recent ones by creation timestamp, and the backup just
\* made is among them.
C14_BackupRetention ==
    [][(last'.op \in EngineOps /\ last'.backedUp) =>
        /\ Cardinality(backups') <= maxBackups
        /\ \A k \in backups' : \A d \in backups \ backups' : k.id.at >= d.id.at
        /\ \E b \in backups' : b.id = NewBackupId]_vars

\* C15: from the start of the application until DataMigration.initialize has
\* run, only the migration engine writes the four slice keys.
C15_MigrationExclusion ==
    [][(pc # "running" /\ last'.op \notin EngineOps) =>
        \A key \in SliceKeys : storage'[key] = storage[key]]_vars

\* every attempt of the call in progress raised the quota error
QuotaEveryTime == \A i \in DOMAIN handling.tried : handling.tried[i] = "quota"

\* the call has returned the fallback's value after maxRetries attempts, more
\* than one
FellBackAfterRetry ==
    /\ handling.state = "returned" /\ handling.result = "fallback"
    /\ Len(handling.tried) = handling.maxRetries
    /\ Len(handling.tried) > 1

\* C16 as stated: a call given a fallback whose every attempt raises the
\* quota error attempts the operation more than once and, after the last of
\* maxRetries attempts, returns the fallback's value; it does not throw.
C16_QuotaFallback ==
    (handling.state # "idle" /\ handling.fallback /\ QuotaEveryTime) =>
        (handling.state = "waiting" \/ FellBackAfterRetry)

\* C16, for calls that allow at least two attempts: a call with maxRetries of
\* 2 or more, given a fallback, whose every attempt raises the quota error
\* attempts the operation maxRetries times, and then returns the fallback's
\* value; it does not throw.
C16_QuotaFallbackAfterRetry ==
    (handling.state # "idle" /\ handling.fallback /\ QuotaEveryTime
        /\ handling.maxRetries >= 2) =>
        (handling.state = "waiting" \/ FellBackAfterRetry)

C16_Witness ==
    /\ handling.state = "returned" /\ handling.result = "fallback"
    /\ handling.maxRetries = 3
    /\ handling.tried = <<"quota", "quota", "quota">>
    /\ clock >= 600
    /\ Len(errorLog) >= 3

\* the bookmark list held under novel-session-data
StoredBookmarks(st) ==
    IF st[SESSION_DATA].kind = "json" /\ IsObject(st[SESSION_DATA].val)
        /\ Has(st[SESSION_DATA].val, "data") /\ IsObject(st[SESSION_DATA].val.data)
        /\ Has(st[SESSION_DATA].val.data, "bookmarkPositions")
    THEN st[SESSION_DATA].val.data.bookmarkPositions
    ELSE << >>
ForChapter(list, chapterIndex) == SelectSeq(list, LAMBDA b : b.chapterIndex = chapterIndex)
InList(b, list) == \E i \in DOMAIN list : list[i] = b

\* C17: the bookmark addBookmark returns is in the stored bookmark list, and
\* among the stored bookmarks of its chapter; after removeBookmark(id) has
\* returned true no stored bookmark has that id, and the other stored
\* bookmarks are all there, in the order they had.
C17_BookmarkAddRemove ==
    [][/\ last'.op = "addBookmark" =>
            /\ InList(last'.ret, StoredBookmarks(storage'))
            /\ InList(last'.ret, ForChapter(StoredBookmarks(storage'),
                                            last'.ret.chapterIndex))
       /\ (last'.op = "removeBookmark" /\ last'.ret) =>
            StoredBookmarks(storage') = WithoutId(StoredBookmarks(storage), last'.arg)
      ]_vars

StoredIds(st) == {StoredBookmarks(st)[i].id : i \in DOMAIN StoredBookmarks(st)}

DefaultValue(key) ==
    CASE key = PREFERENCES -> defaultPreferences
      [] key = READING_STATE -> initialReadingState
      [] key = UI_STATE -> defaultUIState
      [] key = SESSION_DATA -> initialSessionData

\* C19: right after clearAllData none of the four slice keys is in storage,
\* and the load of each slice returns the slice's default value.
C19_ClearAllData ==
    last.op = "clearAllData" =>
        \A key \in SliceKeys :
            /\ storage[key] = Absent
            /\ LoadSlice(World, key).val = DefaultValue(key)

\* C20: every navigation persists its result at once.  In a step of
\* goToNextChapter from chapter i the stored currentChapterIndex becomes i+1,
\* in a step of goToPreviousChapter it becomes i-1, in a step of
\* selectChapter(j) it becomes j, and after the step the stored index is the
\* chapter shown; Next at the last chapter and Previous at chapter 0 leave
\* storage as it was.
C20_NavigationPersists ==
    [][/\ last'.op = "navigate" =>
            /\ currentChapterIndex' = last'.arg
            /\ StoredIndex' = <<currentChapterIndex'>>
       /\ last'.op = "ignored" =>
            /\ storage' = storage
            /\ currentChapterIndex' = currentChapterIndex]_vars

\* C21: when the restore effect acts, migration has succeeded and the chapter
\* list is loaded; the chapter shown becomes the stored currentChapterIndex if
\* that lies in [0, number of chapters) and stays 0 otherwise; the stored
\* reading state is left as it was; the effect acts only when it has not
\* acted before in this start, and once the two conditions hold it does act.
RestoredTo(stored, n) ==
    IF stored # << >> /\ stored[1] \in 0..(n - 1) THEN stored[1] ELSE 0

C21_RestoredOnce ==
    /\ [][/\ last'.op = "restore" =>
                /\ app.migrationStatus = "success"
                /\ app.chapters > 0
                /\ ~app.isStateRestored
                /\ currentChapterIndex' = RestoredTo(StoredIndex, app.chapters)
                /\ storage'[READING_STATE] = storage[READING_STATE]
          /\ app.isStateRestored => app'.isStateRestored]_vars
    /\ (app.migrationStatus = "success" /\ app.chapters > 0) ~> app.isStateRestored

C21_Witness ==
    /\ last.op = "restore"
    /\ currentChapterIndex = 2
    /\ StoredIndex = <<2>>

\* C22: when a debounce timer writes novel-reading-state, the value written is
\* the reading state stored at that moment with only the scroll-owned fields
\* replaced: every field but scrollPosition, lastReadTime and the
\* readingProgress entry of the tracked chapter keeps the value it had in
\* storage just before the timer fired.
ScrollOwned == {"scrollPosition", "lastReadTime", "readingProgress"}

PreservedAtFire(old, new, chapter) ==
    /\ \A f \in DOMAIN old \ ScrollOwned : Has(new, f) /\ new[f] = old[f]
    /\ \A c \in DOMAIN old.readingProgress \ {chapter} :
            /\ c \in DOMAIN new.readingProgress
            /\ new.readingProgress[c] = old.readingProgress[c]

C22_ReadMergedAtFire ==
    [][(/\ last'.op = "fire"
        /\ last'.ret
        /\ last'.key = READING_STATE
        /\ HasData(READING_STATE)) =>
            PreservedAtFire(StoredData(READING_STATE), StoredData(READING_STATE)',
                            CallOf(last'.id).arg[1])]_vars

\* C23: a pass of performMigration in which a rule fails validation returns
\* false, has called the migrate step of no rule ordered after the failing
\* one, has not saved the migrated composite, and leaves a version record
\* that is not the target version; and the loop over a list of rules stops
\* at the first rule that fails validation.
UpToFirstFailing(ids) ==
    IF \E i \in DOMAIN ids : ids[i] \in failingRules
    THEN SubSeq(ids, 1, Min({i \in DOMAIN ids : ids[i] \in failingRules}))
    ELSE ids

RuleFailed(l) ==
    /\ l.op \in EngineOps
    /\ l.invoked # << >>
    /\ l.invoked[Len(l.invoked)] \in failingRules

C23_AbortAtFailingRule ==
    [][/\ RuleFailed(last') =>
            /\ ~last'.ret
            /\ ~last'.saved
            /\ Len(last'.invoked) = 1
            /\ StoredVersionOf(storage') # <<CURRENT_VERSION>>
       /\ last'.op = "applyRules" =>
            /\ last'.invoked = UpToFirstFailing(last'.rules)
            /\ last'.ok = (\A i \in DOMAIN last'.rules : last'.rules[i] \notin failingRules)]_vars

C23_Witness ==
    /\ RuleFailed(last)
    /\ ~last.ret
    /\ storage[VERSION_KEY] # Absent

\* C24: a pass of the engine that called a rule's migrate step made its
\* backup first, and the backup holds, for each of the four slice keys, the
\* value the key had in storage before the pass and the version the version
\* record had; a pass that made no backup called no migrate step.
HoldsAsStored(b, st) ==
    /\ \A key \in SliceKeys : [kind |-> "json", data |-> b.slices[key]] = SliceValue(st, key)
    /\ b.version.version = getCurrentVersion(st).version

C24_BackupBeforeRules ==
    [][last'.op \in EngineOps =>
            /\ last'.invoked # << >> =>
                    /\ last'.backedUp
                    /\ \E b \in backups' : b.id = NewBackupId /\ HoldsAsStored(b, storage)
            /\ ~last'.backedUp => last'.invoked = << >>]_vars

\* C25: in a migration pass (the stored version, 0.0.0 when the record is
\* missing, is below the target) the rules whose migrate step is called are
\* exactly the rules with fromVersion >= the stored version and toVersion <=
\* the target, comparing versions as dotted integers, in ascending order of
\* fromVersion; when there is no such rule the version record is set to the
\* target and the four slice keys keep their texts.
Below(v1, v2) ==
    \E i \in 1..3 : /\ Part(v1, i) < Part(v2, i)
                    /\ \A j \in 1..(i - 1) : Part(v1, j) = Part(v2, j)
AtMost(v1, v2) == ~Below(v2, v1)

DueRules(stored) ==
    {i \in DOMAIN migrationRules :
        /\ AtMost(stored, migrationRules[i].fromVersion)
        /\ AtMost(migrationRules[i].toVersion, CURRENT_VERSION)}

Ascending(ids) ==
    \A i, j \in DOMAIN ids :
        i < j => AtMost(migrationRules[ids[i]].fromVersion, migrationRules[ids[j]].fromVersion)

PassBegins(op) ==
    /\ op \in EngineOps
    /\ VersionReadable(storage)
    /\ Below(getCurrentVersion(storage).version, CURRENT_VERSION)
    /\ op = "initialize" => hasExistingData(storage)

C25_ApplicableRules ==
    [][PassBegins(last'.op) =>
        /\ {last'.invoked[i] : i \in DOMAIN last'.invoked}
                = DueRules(getCurrentVersion(storage).version)
        /\ Len(last'.invoked) = Cardinality(DueRules(getCurrentVersion(storage).version))
        /\ Ascending(last'.invoked)
        /\ DueRules(getCurrentVersion(storage).version) = {} =>
                /\ StoredVersionOf(storage') = <<CURRENT_VERSION>>
                /\ \A key \in SliceKeys : storage'[key] = storage[key]]_vars

C25_Witness ==
    /\ last.op \in EngineOps
    /\ last.invoked = <<1>>
    /\ StoredVersionOf(storage) = <<CURRENT_VERSION>>

\* C26: a call of handleStorageOperation has made at most maxRetries
\* attempts; it waits only when fewer than maxRetries attempts are made, so
\* never after the last; when it is not waiting it has returned or thrown;
\* and a waiting call goes on to return or throw.
Completed == handling.state \in {"returned", "threw"}

C26_AlwaysCompletes ==
    /\ [](handling.state # "idle" =>
            /\ Len(handling.tried) <= handling.maxRetries
            /\ Len(handling.tried) >= 1
            /\ handling.state = "waiting" \/ Completed
            /\ handling.state = "waiting" => Len(handling.tried) < handling.maxRetries
            /\ handling.state = "threw" => Len(handling.tried) = handling.maxRetries)
    /\ (handling.state = "waiting") ~> Completed

C26_Witness ==
    /\ handling.state = "threw"
    /\ handling.tried = <<"error", "dom", "quota">>
    /\ clock >= 600

\* C27: a call of handleStorageOperation whose every attempt raised a
\* non-recoverable error (a DOMException other than the quota error, or an
\* error of another type) does not throw: it returns a value.
NonRecoverableEveryTime ==
    \A i \in DOMAIN handling.tried : handling.tried[i] \in {"dom", "error"}

C27_NonRecoverableNotThrown ==
    (handling.state # "idle" /\ NonRecoverableEveryTime) => handling.state # "threw"

\* C28: the list under novel-critical-errors never has more than 10 entries;
\* a reported error is appended to it exactly when its code is none of
\* QUOTA_EXCEEDED, NETWORK_ERROR, SERIALIZATION_ERROR, DESERIALIZATION_ERROR;
\* and an append to a list of 10 drops the list's first (oldest) entry.
CriticalErrors(st) == IF st[CRITICAL_KEY].kind = "json" THEN st[CRITICAL_KEY].val ELSE << >>

Recoverable == {"QUOTA_EXCEEDED", "NETWORK_ERROR", "SERIALIZATION_ERROR",
                "DESERIALIZATION_ERROR"}

AppendedTo(list, entry) ==
    IF Len(list) >= 10 THEN SubSeq(list, 2, Len(list)) \o <<entry>>
    ELSE list \o <<entry>>

StoredCandidate(key) ==
    IF storage[key].kind \in {"absent", "garbage"} \/ EmptyData(storage[key].val)
    THEN << >>
    ELSE <<storage[key].val.data>>

SliceOf(key, candidate) ==
    IF candidate = << >> THEN Default(key)
    ELSE IF Validator(key, candidate[1]) THEN candidate[1]
    ELSE IF IsObject(candidate[1]) THEN Spread(Default(key), candidate[1])
    ELSE Default(key)

C29_LoadYieldsSlice ==
    [][last'.op = "load" =>
        /\ last'.val = SliceOf(last'.key, StoredCandidate(last'.key))
        /\ DOMAIN DefaultValue(last'.key) \subseteq DOMAIN last'.val
        /\ \A key \in SliceKeys : storage'[key] = storage[key]]_vars

C29_Witness ==
    /\ last.op = "load"
    /\ StoredCandidate(last.key) # << >>
    /\ ~Validator(last.key, StoredData(last.key))
    /\ last.val # Default(last.key)
    /\ last.val # StoredData(last.key)

\* C30: when the preferences object in storage has a theme outside the
\* allowed themes, loadUserPreferences returns a slice whose theme is that
\* stored value, and the slice returned does not pass validatePreferences.
UnknownTheme(candidate) ==
    /\ candidate # << >>
    /\ IsObject(candidate[1])
    /\ Has(candidate[1], "theme")
    /\ candidate[1].theme \notin validThemes

C30_InvalidEnumRetained ==
    [][(/\ last'.op = "load"
        /\ last'.key = PREFERENCES
        /\ UnknownTheme(StoredCandidate(PREFERENCES))) =>
            /\ last'.val.theme = StoredData(PREFERENCES).theme
            /\ ~validatePreferences(last'.val)]_vars

C30_Witness ==
    /\ last.op = "load"
    /\ last.key = PREFERENCES
    /\ UnknownTheme(StoredCandidate(PREFERENCES))
    /\ last.val.theme = "invalid-theme"
    /\ last.val.font = "system"

\* the scroll position held under novel-reading-state, if any
StoredScrollPosition ==
    IF HasData(READING_STATE) /\ Has(StoredData(READING_STATE), "scrollPosition")
    THEN <<StoredData(READING_STATE).scrollPosition>>
    ELSE << >>

\* the time of the latest scroll event
ScrolledAt == scrollTimeoutRef.deadline - debounceDelay
\* the tests read the position back this long after the scroll
readBackAfter == 1200

\* C31: with scroll tracking at its default settings, once a scroll event has
\* been followed by 1200 ms without another scroll event, the position of
\* that event is the scrollPosition held under novel-reading-state.
C31_ScrollWrittenInTime ==
    (/\ scrollTimeoutRef.deadline > 0
     /\ clock >= ScrolledAt + readBackAfter) =>
        StoredScrollPosition = <<scrollTimeoutRef.scrollTop>>

\* the newest entry of the error log after a step that logged something
NewestLogged(before, after) ==
    IF Len(after) > Len(before) THEN <<after[Len(after)].code>> ELSE << >>

\* C32: a slice save of a valid value whose write is refused by the platform
\* (quota exceeded) returns false and records a STORAGE_QUOTA_EXCEEDED or
\* STORAGE_NOT_AVAILABLE error in the error log.
C32_WriteFailureLogged ==
    [][(/\ last'.op = "save"
        /\ quotaFull
        /\ Validator(last'.key, last'.arg)
        /\ Serializable(last'.arg)) =>
            /\ last'.ret = FALSE
            /\ NewestLogged(errorLog, errorLog') \in
                    {<<"STORAGE_QUOTA_EXCEEDED">>, <<"STORAGE_NOT_AVAILABLE">>}]_vars

\* C33: when a debounce timer fires and no operation has been issued since
\* clearAllData (only time has passed), every slice key is still absent after
\* the timer's callback.
C33_ClearOutlastsPendingWrites ==
    [][(LastRun = "clearAllData" /\ last'.op = "fire") =>
            \A key \in SliceKeys : storage'[key] = Absent]_vars

\* C34: from the default UI state, after any sequence of toggleTOC,
\* toggleSettings, openPanel and closeAllPanels, showTOC and showSettings are
\* never both true, showTOC implies lastActivePanel = 'toc' and showSettings
\* implies lastActivePanel = 'settings'.
C34_OnePanel ==
    /\ ~(uiState.showTOC /\ uiState.showSettings)
    /\ uiState.showTOC => uiState.lastActivePanel = "toc"
    /\ uiState.showSettings => uiState.lastActivePanel = "settings"

\* the settings panel was opened over the open contents panel, which closed
C34_Witness ==
    /\ last.op = "toggleSettings"
    /\ uiState.showSettings
    /\ ~uiState.showTOC
    /\ uiState.lastActivePanel = "settings"
    /\ HasData(UI_STATE)
    /\ StoredData(UI_STATE) = uiState

\* C35: whenever DataMigration.initialize returns true, the version record is
\* stored, its version is not below the current version and needsMigration()
\* is false right afterwards, also when the write of the version record
\* fails.
C35_InitializedMeansCurrent ==
    [][(last'.op = "initialize" /\ last'.ret) =>
            /\ storage'[VERSION_KEY].kind = "json"
            /\ VersionReadable(storage')
            /\ ~needsMigration(storage')]_vars

\* the composite performMigration would hand to saveMigratedData
MigratedComposite ==
    ApplyRules(LoadAll(World, SliceOrder, NoData).data,
               getApplicableMigrations(getCurrentVersion(storage).version)).data

\* C36: when performMigration returns true after applying rules, the value
\* stored under each slice key is the corresponding slice of the migrated
\* composite, and the version record holds the target version.
C36_MigratedSlicesPersisted ==
    [][(last'.op \in EngineOps /\ last'.ret /\ last'.applied > 0) =>
            /\ StoredVersionOf(storage') = <<CURRENT_VERSION>>
            /\ \A key \in SliceKeys :
                    SliceValue(storage', key) =
                        [kind |-> "json", data |-> MigratedComposite[key]]]_vars

\* C37: when importUserData returns true, each slice the snapshot holds is
\* the value now stored under its key; and a snapshot with a slice that
\* fails its validator makes importUserData return false.
C37_ImportStoresEverySlice ==
    [][(/\ last'.op = "importUserData"
        /\ last'.arg.kind = "json"
        /\ IsObject(last'.arg.val)) =>
            /\ last'.ret =>
                    \A key \in SliceKeys :
                        last'.arg.val[key] # << >> =>
                            SliceValue(storage', key) =
                                [kind |-> "json", data |-> last'.arg.val[key][1]]
            /\ (\E key \in SliceKeys :
                    /\ last'.arg.val[key] # << >>
                    /\ ~Validator(key, last'.arg.val[key][1])) => ~last'.ret]_vars

\* C38: when the first attempt of a handleStorageOperation call given a
\* fallback raises a storage exception other than the quota error, the call
\* returns the fallback's value in that very step: the operation was invoked
\* once, no backoff wait is begun, no time passes, and the error log grows by
\* exactly one STORAGE_NOT_AVAILABLE entry.
C38_FallbackAtOnce ==
    [][(/\ last'.op = "handleStorageOperation"
        /\ handling'.tried = <<"dom">>
        /\ handling'.fallback) =>
            /\ handling'.state = "returned"
            /\ handling'.result = "fallback"
            /\ handling'.attempt = 1
            /\ clock' = clock
            /\ errorLog' = Append(errorLog, [code |-> "STORAGE_NOT_AVAILABLE",
                                             operation |-> "operation"])]_vars

C38_Witness ==
    /\ last.op = "handleStorageOperation"
    /\ handling.state = "returned"
    /\ handling.result = "fallback"
    /\ handling.tried = <<"dom">>
    /\ handling.maxRetries = 3
    /\ errorLog = <<[code |-> "STORAGE_NOT_AVAILABLE", operation |-> "operation"]>>

\* the chapters listed under novel-session-data
StoredChaptersRead(st) ==
    IF st[SESSION_DATA].kind = "json" /\ IsObject(st[SESSION_DATA].val)
        /\ Has(st[SESSION_DATA].val, "data") /\ IsObject(st[SESSION_DATA].val.data)
        /\ Has(st[SESSION_DATA].val.data, "chaptersRead")
    THEN st[SESSION_DATA].val.data.chaptersRead
    ELSE << >>

ControllerSaves ==
    {"updateSessionTime", "addChapterToRead", "updateReadingSpeed", "sessionAddBookmark"}

\* C39: a save of the session controller's slice (session-time tick, chapter
\* added, reading-speed update, bookmark added) loses no chapter of the
\* stored chaptersRead: every index stored before the save, those appended
\* by the scroll-tracking hook included, is stored after it.
C39_NoLostSessionUpdate ==
    [][last'.op \in ControllerSaves =>
            \A chapterIndex \in Chapters :
                Includes(StoredChaptersRead(storage), chapterIndex) =>
                    Includes(StoredChaptersRead(storage'), chapterIndex)]_vars

\* the fields of the reading state a navigation does not own
NotNavigationOwned ==
    {"scrollPosition", "readingProgress", "totalReadingTime", "sessionStartTime"}

\* C40: in a step of goToNextChapter, goToPreviousChapter or selectChapter
\* the stored scrollPosition, readingProgress, totalReadingTime and
\* sessionStartTime stay what they were, as stored and as loadReadingState
\* returns them, and the pending debounce timers, the timer map and the
\* timers' data are left as they were.
C40_NavigationFrame ==
    [][last'.op = "navigate" =>
        /\ \A f \in NotNavigationOwned :
                /\ LoadSlice(World, READING_STATE)'.val[f] =
                        LoadSlice(World, READING_STATE).val[f]
                /\ (HasData(READING_STATE) /\ Has(StoredData(READING_STATE), f)) =>
                        /\ HasData(READING_STATE)'
                        /\ StoredData(READING_STATE)'[f] = StoredData(READING_STATE)[f]
        /\ timeouts' = timeouts
        /\ debounceTimers' = debounceTimers
        /\ nextTimerId' = nextTimerId]_vars

\* a navigation saved the new index while a scroll write was pending, over a
\* reading state that an earlier scroll write had stored
C40_Witness ==
    /\ last.op = "navigate"
    /\ last.ret
    /\ timeouts # {}
    /\ HasData(READING_STATE)
    /\ StoredData(READING_STATE).currentChapterIndex = last.arg
    /\ StoredData(READING_STATE).scrollPosition = 700
    /\ StoredData(READING_STATE).lastReadTime = clock
    /\ DOMAIN StoredData(READING_STATE).readingProgress # {}
    /\ Len(writes[READING_STATE]) >= 1

====
